---- MODULE Spec2Model ----
(***************************************************************************)
(* Obscurity scoring engine of backend/calculator.py.                      *)
(*                                                                         *)
(* Scores are Python floats in the source.  Here a score is an integer     *)
(* number of ScoreUnit-ths of a point: ScoreUnit is the least common       *)
(* multiple of the widths of the brackets of SCORE_CURVE, so every         *)
(* interpolated score, and every diversity bonus of a list of at most six  *)
(* films, is represented exactly (7.5 is 15 * ScoreUnit \div 2).           *)
(*                                                                         *)
(* An optional value (dict.get returning None, or a key that is missing)   *)
(* is the empty sequence None; a present value v is <<v>>.                 *)
(***************************************************************************)
EXTENDS Integers, Sequences, FiniteSets, TLC

VARIABLES
    pc,          \* position of the call being made
    watches,     \* <<a, b>>: arguments of two calls of calculate_obscurity_from_watches
    curve_out,   \* the results of those calls, in call order
    film,        \* argument of get_film_obscurity
    film_out,    \* its result, None before the call
    films,       \* argument of calculate_obscurity_score: the user's film list
    score_out,   \* its result, None before the call
    bonus_out,   \* result of calculate_diversity_bonus(films), None before the call
    stats_out,   \* outcomes of the calls of calculate_obscurity_stats(films, ...), in call order
    user_films,  \* scraper.get_user_films: its list films
    db_films,    \* its dict db_films, of the slugs found in the database
    used_rss_fallback,   \* its flag of that name
    max_to_scrape,       \* its MAX_FILMS_TO_SCRAPE_PER_REQUEST
    enriched_films,      \* the list it returns, None before the return
    profile,             \* its argument username
    page,                \* its page counter
    consecutive_empty_pages,   \* its counter of that name
    fetched,             \* what each fetch of a page gave, in order
    raised,              \* the exception it raised, None when it raised none
    response,            \* analyze_user: the response to POST /analyze, None before it
    stats_called_with,   \* analyze_user: the lists calculate_obscurity_stats was called with
    stats_slug,          \* get_film_stats: film.get('slug', ''), None for a film without the key
    retries,             \* its argument
    attempt,             \* its loop variable
    attempts,            \* what each attempt made so far gave, in order
    stats_returned,      \* the dict it returned, None before the return
    table,               \* database.py: the rows of the table films, in the order of their ids
    save_slug,           \* save_film: the slug of the last call, None when the film had none
    save_outcome,        \* "none" before any call, then "returned" or "raised"
    save_kept            \* the guarded columns whose stored value the last call had to keep

core_vars == <<watches, curve_out, film, film_out, films, score_out, bonus_out, stats_out>>

scraper_vars ==
    <<user_films, db_films, used_rss_fallback, max_to_scrape, enriched_films, profile,
      page, consecutive_empty_pages, fetched, raised>>

http_vars == <<response, stats_called_with>>

retry_vars == <<stats_slug, retries, attempt, attempts, stats_returned>>

db_vars == <<table, save_slug, save_outcome, save_kept>>

other_vars == <<http_vars, retry_vars, db_vars>>

io_vars == <<scraper_vars, other_vars>>

vars == <<pc, core_vars, io_vars>>

----------------------------------------------------------------------------
(* Bounds of the model *)

Radius == 2     \* integers this close to every control point are inputs
Parts == 4      \* every bracket is cut in this many parts, the cuts are inputs
MaxFilms == 4   \* longest film list
MaxStatsFilms == 3   \* longest film list of a report
MaxRankFilms == 10   \* longest film list of a ranking
MaxVaried == 2   \* leading films of a ranking drawn from all three kinds
MaxDecadeFilms == 6   \* longest film list of a decade ranking
MaxTopFilms == 11   \* longest film list of a top-10 breakdown
MaxUserFilms == 3   \* longest scraped film list that is merged with the database
MaxPages == 5   \* pages of a profile that are fetched
MaxRetries == 3   \* largest value of the argument retries

----------------------------------------------------------------------------
(* Scores and optional values *)

ScoreUnit == 3000 * 1000

Points(n) == n * ScoreUnit

None == <<>>

Some(v) == <<v>>

Min(a, b) == IF a <= b THEN a ELSE b

Max(a, b) == IF a >= b THEN a ELSE b

----------------------------------------------------------------------------
(* calculator.py: the popularity curve *)

SCORE_CURVE ==
    << [watches |-> 5000000, score |-> 5],
       [watches |-> 3500000, score |-> 10],
       [watches |-> 2500000, score |-> 18],
       [watches |-> 2000000, score |-> 25],
       [watches |-> 1500000, score |-> 33],
       [watches |-> 1200000, score |-> 39],
       [watches |-> 1000000, score |-> 45],
       [watches |-> 800000, score |-> 51],
       [watches |-> 600000, score |-> 56],
       [watches |-> 450000, score |-> 61],
       [watches |-> 300000, score |-> 67],
       [watches |-> 200000, score |-> 72],
       [watches |-> 100000, score |-> 78],
       [watches |-> 50000, score |-> 84],
       [watches |-> 25000, score |-> 89],
       [watches |-> 10000, score |-> 94],
       [watches |-> 5000, score |-> 97],
       [watches |-> 1000, score |-> 99] >>

\* range(len(SCORE_CURVE) - 1), 1-based: bracket i lies between points i and i + 1
Brackets == 1 .. (Len(SCORE_CURVE) - 1)

\* "if watches < 0": the zero check off by one
is_not_positive_strict(w) == w < 0

\* "if watches <= 0"
is_not_positive(w) == w <= 0

\* the edge cases left out
clamps_high_never(w) == FALSE

\* "if watches >= SCORE_CURVE[0][0]"
clamps_high(w) == w >= SCORE_CURVE[1].watches

\* "if watches <= SCORE_CURVE[-1][0]"
clamps_low(w) == w <= SCORE_CURVE[Len(SCORE_CURVE)].watches

\* "lower_watches < watches < upper_watches": both ends excluded
in_bracket_open(i, w) ==
    /\ SCORE_CURVE[i + 1].watches < w
    /\ w < SCORE_CURVE[i].watches

\* "if lower_watches <= watches <= upper_watches"
in_bracket(i, w) ==
    /\ SCORE_CURVE[i + 1].watches <= w
    /\ w <= SCORE_CURVE[i].watches

\* the ratio measured from the lower end of the bracket
interpolate_from_lower(i, w) ==
    LET upper == SCORE_CURVE[i]
        lower == SCORE_CURVE[i + 1]
        ratio == (w - lower.watches) * (ScoreUnit \div (upper.watches - lower.watches))
    IN  Points(upper.score) + ratio * (lower.score - upper.score)

\* the interpolation started from the lower point's score instead of the upper's
interpolate_wrong_base(i, w) ==
    LET upper == SCORE_CURVE[i]
        lower == SCORE_CURVE[i + 1]
        ratio == (upper.watches - w) * (ScoreUnit \div (upper.watches - lower.watches))
    IN  Points(lower.score) + ratio * (lower.score - upper.score)

\* ratio = (upper_watches - watches) / (upper_watches - lower_watches), in
\* ScoreUnit-ths (the width divides ScoreUnit);
\* score = upper_score + ratio * (lower_score - upper_score)
interpolate(i, w) ==
    LET upper == SCORE_CURVE[i]
        lower == SCORE_CURVE[i + 1]
        ratio == (upper.watches - w) * (ScoreUnit \div (upper.watches - lower.watches))
    IN  Points(upper.score) + ratio * (lower.score - upper.score)

\* the for loop from bracket i on, and the return that follows it
RECURSIVE find_bracket(_, _)
find_bracket(i, w) ==
    IF i \notin Brackets
    THEN [score |-> Points(50), exit |-> "fallthrough"]
    ELSE IF in_bracket(i, w)
         THEN [score |-> interpolate(i, w), exit |-> "interpolated"]
         ELSE find_bracket(i + 1, w)

\* calculate_obscurity_from_watches, with the return statement that was taken
curve_call(w) ==
    IF is_not_positive(w)
    THEN [score |-> Points(100), exit |-> "not_positive"]
    ELSE IF clamps_high(w)
         THEN [score |-> Points(SCORE_CURVE[1].score), exit |-> "clamp_high"]
         ELSE IF clamps_low(w)
              THEN [score |-> Points(SCORE_CURVE[Len(SCORE_CURVE)].score),
                    exit |-> "clamp_low"]
              ELSE find_bracket(1, w)

calculate_obscurity_from_watches(w) == curve_call(w).score

----------------------------------------------------------------------------
(* calculator.py: the per-film resolver *)

\* Python truthiness of an optional number: None and 0 are false
truthy_number(opt) == opt # None /\ opt[1] # 0

\* Python truthiness of an optional string or list: None, "" and [] are false
truthy_sized(opt, empty) == opt # None /\ opt[1] # empty

\* "if lb_watches:": an observed zero taken for a missing value
has_watches_truthy(lb_watches) == truthy_number(lb_watches)

\* "if lb_watches is not None"
has_watches(lb_watches) == lb_watches # None

\* "if tmdb_pop > 50": the threshold of the inner test used for the outer one
is_popular_above_50(tmdb_pop) == tmdb_pop > 50

\* "if tmdb_pop > 5"
is_popular(tmdb_pop) == tmdb_pop > 5

\* int(1_000_000 * (tmdb_pop / 100) ** 0.7) for tmdb_pop > 50, otherwise
\* int(30_000 * (tmdb_pop ** 0.85)): the values of these two expressions on the
\* popularities of PopularityDomain that reach them (those above 5)
estimated_watches_from_popularity(tmdb_pop) ==
    IF tmdb_pop > 50
    THEN CASE tmdb_pop = 51 -> 624164
           [] tmdb_pop = 60 -> 699368
           [] tmdb_pop = 100 -> 1000000
           [] tmdb_pop = 1000 -> 5011872
    ELSE CASE tmdb_pop = 6 -> 137578
           [] tmdb_pop = 10 -> 212383
           [] tmdb_pop = 50 -> 834153

\* int(50 * (tmdb_vote_count ** 0.8)): the values of the expression on the vote
\* counts of VoteDomain that reach it (those above 100)
estimated_watches_from_votes(tmdb_vote_count) ==
    CASE tmdb_vote_count = 101 -> 2006
      [] tmdb_vote_count = 1000 -> 12559
      [] tmdb_vote_count = 10000 -> 79244
      [] tmdb_vote_count = 100000 -> 500000

\* "if film.get('poster_path')": the genres forgotten
has_tmdb_indicators_poster_only(f) == truthy_sized(f.poster_path, "")

\* "if film.get('poster_path') or film.get('genres')"
has_tmdb_indicators(f) ==
    truthy_sized(f.poster_path, "") \/ truthy_sized(f.genres, <<>>)

\* get_film_obscurity from "tmdb_pop = film.get('popularity')" on.
\* film.get('vote_count', 0) is 0 for a missing key and None for an explicit
\* None; both are false in "if tmdb_vote_count and ...", as None is here.
secondary_signals(f) ==
    LET tmdb_pop == f.popularity
        tmdb_vote_count == f.vote_count
    IN  IF truthy_number(tmdb_pop) /\ tmdb_pop[1] > 0
        THEN IF is_popular(tmdb_pop[1])
             THEN [score |-> calculate_obscurity_from_watches(
                                 estimated_watches_from_popularity(tmdb_pop[1])),
                   source |-> "tmdb"]
             ELSE [score |-> Points(92), source |-> "tmdb_low"]
        ELSE IF truthy_number(tmdb_vote_count) /\ tmdb_vote_count[1] > 100
             THEN [score |-> calculate_obscurity_from_watches(
                                 estimated_watches_from_votes(tmdb_vote_count[1])),
                   source |-> "tmdb_votes"]
             ELSE IF has_tmdb_indicators(f)
                  THEN [score |-> Points(75), source |-> "tmdb_no_pop"]
                  ELSE [score |-> Points(100), source |-> "none"]

get_film_obscurity(f) ==
    LET lb_watches == f.letterboxd_watches
    IN  IF has_watches(lb_watches) /\ lb_watches[1] = 0
        THEN [score |-> Points(100), source |-> "letterboxd"]
        ELSE IF has_watches(lb_watches) /\ lb_watches[1] > 0
             THEN [score |-> calculate_obscurity_from_watches(lb_watches[1]),
                   source |-> "letterboxd"]
             ELSE secondary_signals(f)

----------------------------------------------------------------------------
(* calculator.py: the aggregate score *)

\* list.sort() of a list of integers
RECURSIVE insert_sorted(_, _)
insert_sorted(x, s) ==
    IF s = <<>> THEN <<x>>
    ELSE IF x <= Head(s) THEN <<x>> \o s
         ELSE <<Head(s)>> \o insert_sorted(x, Tail(s))

RECURSIVE sorted(_)
sorted(s) == IF s = <<>> THEN <<>> ELSE insert_sorted(Head(s), sorted(Tail(s)))

ANGLOPHONE == {"United States of America", "USA", "United Kingdom", "UK"}

is_non_anglophone(f) ==
    /\ truthy_sized(f.production_countries, <<>>)
    /\ ~ \E k \in 1 .. Len(f.production_countries[1]) :
            f.production_countries[1][k] \in ANGLOPHONE

is_classic(f) == truthy_number(f.year) /\ f.year[1] < 1980

\* (count / n) * 3, the cap of 1.5 left out
bonus_share_uncapped(count, n) == (Points(3) * count) \div n

\* min(1.5, (count / n) * 3)
bonus_share(count, n) == Min(Points(3) \div 2, (Points(3) * count) \div n)

calculate_diversity_bonus(fs) ==
    IF fs = <<>> THEN 0
    ELSE LET n == Len(fs)
             non_anglophone == Cardinality({ i \in 1 .. n : is_non_anglophone(fs[i]) })
             classic_films == Cardinality({ i \in 1 .. n : is_classic(fs[i]) })
         IN  Min(Points(3), bonus_share(non_anglophone, n) + bonus_share(classic_films, n))

\* the sum returned as it is
clamp_score_missing(score) == score

\* max(0, min(100, score))
clamp_score(score) == Max(0, Min(Points(100), score))

\* [f.get('letterboxd_watches') for f in films if f.get('letterboxd_watches')]
RECURSIVE watch_counts(_)
watch_counts(fs) ==
    IF fs = <<>> THEN <<>>
    ELSE (IF truthy_number(Head(fs).letterboxd_watches)
          THEN <<Head(fs).letterboxd_watches[1]>> ELSE <<>>)
         \o watch_counts(Tail(fs))

\* the median of the sorted watch counts, lines "n = len(lb_watches)" on
median_of_sorted(lb_watches) ==
    LET n == Len(lb_watches)
    IN  IF n % 2 = 0
        THEN (lb_watches[n \div 2] + lb_watches[n \div 2 + 1]) \div 2
        ELSE lb_watches[n \div 2 + 1]

\* [get_film_obscurity(f)[0] for f in films]
RECURSIVE film_scores_of(_)
film_scores_of(fs) ==
    IF fs = <<>> THEN <<>>
    ELSE <<get_film_obscurity(Head(fs)).score>> \o film_scores_of(Tail(fs))

\* the result is the pair (score, median watch count) the source returns; the
\* second component is always an integer in the source, Some(n) here
calculate_obscurity_score(fs) ==
    IF fs = <<>>
    THEN [score |-> Points(50), median |-> Some(0)]
    ELSE LET lb_watches == sorted(watch_counts(fs))
         IN  IF Len(lb_watches) >= 3
             THEN LET median_watches == median_of_sorted(lb_watches)
                      base_score == calculate_obscurity_from_watches(median_watches)
                      bonus == calculate_diversity_bonus(fs)
                  IN  [score |-> clamp_score(base_score + bonus),
                       median |-> Some(median_watches)]
             ELSE LET film_scores == sorted(film_scores_of(fs))
                      median_score == film_scores[Len(film_scores) \div 2 + 1]
                      bonus == calculate_diversity_bonus(fs)
                  IN  [score |-> clamp_score(median_score + bonus),
                       median |-> Some(0)]

----------------------------------------------------------------------------
(* calculator.py: the report of calculate_obscurity_stats *)

(* A film of the report carries, beside the fields above, title, director and  *)
(* user_rating, and null_keys: the keys that are present with the value None  *)
(* (film.get(key, default) returns None for them and default for a missing    *)
(* key).  user_rating counts half points (7 is the rating 3.5); an average     *)
(* rating counts hundredths; a mood percentage counts tenths of a percent.     *)
(* A dict is the sequence of its <<key, value>> pairs in insertion order; a    *)
(* decade label f"{decade}s" is the pair <<decade, "s">>.                      *)

\* film.get(key, default)
get_or_default(f, key, default) ==
    IF f[key] = None /\ key \notin f.null_keys THEN Some(default) ELSE f[key]

\* round(x / unit) for whole x, unit: Python rounds a half to the even neighbour
round_half_even(x, unit) ==
    LET q == x \div unit
        r == x % unit
    IN  IF 2 * r < unit THEN q
        ELSE IF 2 * r > unit THEN q + 1
        ELSE IF q % 2 = 0 THEN q ELSE q + 1

\* round(score, 1)
round_score(score) == round_half_even(score, ScoreUnit \div 10) * (ScoreUnit \div 10)

\* Counter: counter[key] += 1
counter_add(counter, key) ==
    IF \E i \in 1 .. Len(counter) : counter[i][1] = key
    THEN [i \in 1 .. Len(counter) |->
            IF counter[i][1] = key THEN <<key, counter[i][2] + 1>> ELSE counter[i]]
    ELSE Append(counter, <<key, 1>>)

\* Counter.update(keys) for a list of keys
RECURSIVE counter_update(_, _)
counter_update(counter, keys) ==
    IF keys = <<>> THEN counter
    ELSE counter_update(counter_add(counter, Head(keys)), Tail(keys))

\* x goes before the pairs that are equal to it: the sort is not stable
RECURSIVE insert_before_ties(_, _)
insert_before_ties(x, s) ==
    IF s = <<>> THEN <<x>>
    ELSE IF Head(s)[2] > x[2] THEN <<Head(s)>> \o insert_before_ties(x, Tail(s))
         ELSE <<x>> \o s

\* one step of a stable sort in descending order of the second component: x goes
\* behind every pair that is not smaller
RECURSIVE insert_after_ties(_, _)
insert_after_ties(x, s) ==
    IF s = <<>> THEN <<x>>
    ELSE IF Head(s)[2] >= x[2] THEN <<Head(s)>> \o insert_after_ties(x, Tail(s))
         ELSE <<x>> \o s

\* list.sort(key=lambda x: x[1], reverse=True) and sorted(..., reverse=True) of
\* pairs <<item, key>>: descending, equal keys keep their order
RECURSIVE sort_descending(_)
sort_descending(s) ==
    IF s = <<>> THEN <<>>
    ELSE insert_after_ties(s[Len(s)], sort_descending(SubSeq(s, 1, Len(s) - 1)))

\* sorted(rating_counts.items()): ascending in the key, which is unique
RECURSIVE sort_by_key(_)
sort_by_key(s) ==
    IF s = <<>> THEN <<>>
    ELSE LET rest == sort_by_key(SubSeq(s, 1, Len(s) - 1))
             x == s[Len(s)]
             before == SelectSeq(rest, LAMBDA y : y[1] < x[1])
             after == SelectSeq(rest, LAMBDA y : y[1] > x[1])
         IN  before \o <<x>> \o after

\* s[:5]
first_five(s) == SubSeq(s, 1, Min(5, Len(s)))

\* s[-5:]: the reversal forgotten
last_five(s) == SubSeq(s, Max(1, Len(s) - 4), Len(s))

\* s[-5:][::-1]
last_five_reversed(s) ==
    LET tail == SubSeq(s, Max(1, Len(s) - 4), Len(s))
    IN  [k \in 1 .. Len(tail) |-> tail[Len(tail) + 1 - k]]

\* Counter.most_common(10)
most_common_10(counter) ==
    LET ordered == sort_descending(counter)
    IN  SubSeq(ordered, 1, Min(10, Len(ordered)))

\* genre_counts over all films: Counter.update(None) counts nothing
RECURSIVE genre_counts_of(_, _)
genre_counts_of(fs, counter) ==
    IF fs = <<>> THEN counter
    ELSE LET genres == get_or_default(Head(fs), "genres", <<>>)
         IN  genre_counts_of(Tail(fs),
                 IF genres = None THEN counter ELSE counter_update(counter, genres[1]))

RECURSIVE country_counts_of(_, _)
country_counts_of(fs, counter) ==
    IF fs = <<>> THEN counter
    ELSE LET countries == get_or_default(Head(fs), "production_countries", <<>>)
         IN  country_counts_of(Tail(fs),
                 IF countries = None THEN counter ELSE counter_update(counter, countries[1]))

\* the century of the year in place of its decade
century_of(year) == <<(year \div 100) * 100, "s">>

\* f"{(year // 10) * 10}s": the label is the pair of the number and the suffix
decade_of(year) == <<(year \div 10) * 10, "s">>

\* sorted(decade_counts.items()): ascending in the label; the labels of
\* four-digit years compare as strings the way their numbers compare
RECURSIVE sort_by_label(_)
sort_by_label(s) ==
    IF s = <<>> THEN <<>>
    ELSE LET rest == sort_by_label(SubSeq(s, 1, Len(s) - 1))
             x == s[Len(s)]
             before == SelectSeq(rest, LAMBDA y : y[1][1] < x[1][1])
             after == SelectSeq(rest, LAMBDA y : y[1][1] > x[1][1])
         IN  before \o <<x>> \o after

RECURSIVE decade_counts_of(_, _)
decade_counts_of(fs, counter) ==
    IF fs = <<>> THEN counter
    ELSE decade_counts_of(Tail(fs),
             IF truthy_number(Head(fs).year)
             THEN counter_add(counter, decade_of(Head(fs).year[1]))
             ELSE counter)

RECURSIVE director_counts_of(_, _)
director_counts_of(fs, counter) ==
    IF fs = <<>> THEN counter
    ELSE director_counts_of(Tail(fs),
             IF truthy_sized(Head(fs).director, "")
             THEN counter_add(counter, Head(fs).director[1])
             ELSE counter)

\* the ratings that are not None, in list order
RECURSIVE ratings_of(_)
ratings_of(fs) ==
    IF fs = <<>> THEN <<>>
    ELSE (IF Head(fs).user_rating # None THEN Head(fs).user_rating ELSE <<>>)
         \o ratings_of(Tail(fs))

RECURSIVE sum_of(_)
sum_of(s) == IF s = <<>> THEN 0 ELSE Head(s) + sum_of(Tail(s))

\* round(average_rating, 2) if average_rating else None, where average_rating is
\* sum(ratings) / len(ratings) if ratings else None
average_rating_of(ratings) ==
    IF ratings = <<>> \/ sum_of(ratings) = 0 THEN None
    ELSE Some(round_half_even(50 * sum_of(ratings), Len(ratings)))

\* the summary of a film in most_obscure, most_mainstream and films_by_decade;
\* the popularities of the model are whole, round(popularity, 1) leaves them
film_summary(f) ==
    [ title |-> f.title,
      year |-> f.year,
      watches |-> f.letterboxd_watches,
      popularity |-> IF truthy_number(f.popularity) THEN f.popularity ELSE None,
      director |-> f.director,
      poster_path |-> f.poster_path ]

\* films_with_scores after its sort: pairs <<position in films, score>>
films_with_scores(fs) ==
    sort_descending([i \in 1 .. Len(fs) |-> <<i, get_film_obscurity(fs[i]).score>>])

\* positions in films of the entries of most_obscure
most_obscure_positions(fs) ==
    LET top == first_five(films_with_scores(fs))
    IN  [k \in 1 .. Len(top) |-> top[k][1]]

\* positions in films of the entries of most_mainstream
most_mainstream_positions(fs) ==
    LET bottom == last_five_reversed(films_with_scores(fs))
    IN  [k \in 1 .. Len(bottom) |-> bottom[k][1]]

summaries_at(fs, positions) ==
    [k \in 1 .. Len(positions) |-> film_summary(fs[positions[k]])]

MOODS ==
    {"Dark & Intense", "Fun & Light", "Emotional & Deep", "Adventurous", "Thought-Provoking"}

mood_mapping ==
    [ m \in MOODS |->
        CASE m = "Dark & Intense" -> {"Horror", "Thriller", "Crime", "War", "Mystery"}
          [] m = "Fun & Light" -> {"Comedy", "Animation", "Family", "Music"}
          [] m = "Emotional & Deep" -> {"Drama", "Romance", "History"}
          [] m = "Adventurous" ->
                {"Action", "Adventure", "Science Fiction", "Fantasy", "Western"}
          [] m = "Thought-Provoking" -> {"Documentary", "Mystery", "Science Fiction"} ]

\* "for genre in film.get('genres', [])" raises TypeError when the value is None
mood_analysis_raises(fs) ==
    \E i \in 1 .. Len(fs) : get_or_default(fs[i], "genres", <<>>) = None

\* every genre of every film, in order (no film has genres None here)
RECURSIVE all_genres(_)
all_genres(fs) ==
    IF fs = <<>> THEN <<>>
    ELSE get_or_default(Head(fs), "genres", <<>>)[1] \o all_genres(Tail(fs))

mood_count(genres, m) ==
    Cardinality({ k \in 1 .. Len(genres) : genres[k] \in mood_mapping[m] })

calculate_mood_analysis(fs) ==
    LET genres == all_genres(fs)
        total == sum_of([k \in 1 .. Len(genres) |->
                           Cardinality({ m \in MOODS : genres[k] \in mood_mapping[m] })])
    IN  IF total > 0
        THEN [ m \in MOODS |-> round_half_even(1000 * mood_count(genres, m), total) ]
        ELSE [ m \in MOODS |-> 0 ]

\* one entry of films_by_decade[decade]
decade_entry(f) ==
    [ title |-> f.title,
      year |-> f.year,
      watches |-> f.letterboxd_watches,
      popularity |-> IF truthy_number(f.popularity) THEN f.popularity ELSE None,
      director |-> f.director,
      poster_path |-> f.poster_path,
      obscurity_score |-> round_score(get_film_obscurity(f).score) ]

\* films_by_decade[decade].append(entry), the key created when it is new
decade_append(by_decade, decade, entry) ==
    IF \E i \in 1 .. Len(by_decade) : by_decade[i][1] = decade
    THEN [i \in 1 .. Len(by_decade) |->
            IF by_decade[i][1] = decade
            THEN <<decade, Append(by_decade[i][2], entry)>> ELSE by_decade[i]]
    ELSE Append(by_decade, <<decade, <<entry>>>>)

RECURSIVE films_by_decade_of(_, _)
films_by_decade_of(fs, by_decade) ==
    IF fs = <<>> THEN by_decade
    ELSE films_by_decade_of(Tail(fs),
             IF truthy_number(Head(fs).year)
             THEN decade_append(by_decade, decade_of(Head(fs).year[1]),
                                decade_entry(Head(fs)))
             ELSE by_decade)

\* sorted(entries, key=lambda x: x.get('obscurity_score', 0), reverse=True)[:5]
top_five_of_decade(entries) ==
    LET keyed == [k \in 1 .. Len(entries) |-> <<entries[k], entries[k].obscurity_score>>]
        top == first_five(sort_descending(keyed))
    IN  [k \in 1 .. Len(top) |-> top[k][1]]

films_by_decade_sorted(fs) ==
    LET by_decade == films_by_decade_of(fs, <<>>)
    IN  [i \in 1 .. Len(by_decade) |->
            <<by_decade[i][1], top_five_of_decade(by_decade[i][2])>>]

\* positions in films of the entries of films_by_decade[decade], in list order
decade_positions(fs, decade) ==
    LET members == SelectSeq([i \in 1 .. Len(fs) |-> i],
                             LAMBDA i : truthy_number(fs[i].year)
                                        /\ decade_of(fs[i].year[1]) = decade)
        keyed == [k \in 1 .. Len(members) |->
                    <<members[k], decade_entry(fs[members[k]]).obscurity_score>>]
        top == first_five(sort_descending(keyed))
    IN  [k \in 1 .. Len(top) |-> top[k][1]]

\* positions in films of the entries of every list of films_by_decade
films_by_decade_positions(fs) ==
    LET by_decade == films_by_decade_of(fs, <<>>)
    IN  [i \in 1 .. Len(by_decade) |->
            <<by_decade[i][1], decade_positions(fs, by_decade[i][1])>>]

\* the report of an empty list
empty_report(username) ==
    [ username |-> username,
      obscurity_score |-> 0,
      total_films |-> 0,
      average_rating |-> None,
      median_watches |-> None,
      top_genres |-> <<>>,
      decade_breakdown |-> <<>>,
      country_breakdown |-> <<>>,
      most_obscure_films |-> <<>>,
      most_mainstream_films |-> <<>>,
      director_counts |-> <<>>,
      rating_distribution |-> <<>>,
      mood_analysis |-> <<>> ]

\* the report of a non-empty list whose mood analysis does not raise
full_report(fs, username) ==
    LET result == calculate_obscurity_score(fs)
    IN  [ username |-> username,
          obscurity_score |-> round_score(result.score),
          total_films |-> Len(fs),
          average_rating |-> average_rating_of(ratings_of(fs)),
          median_watches |-> result.median,
          top_genres |-> most_common_10(genre_counts_of(fs, <<>>)),
          decade_breakdown |-> sort_by_label(decade_counts_of(fs, <<>>)),
          country_breakdown |-> most_common_10(country_counts_of(fs, <<>>)),
          most_obscure_films |-> summaries_at(fs, most_obscure_positions(fs)),
          most_mainstream_films |-> summaries_at(fs, most_mainstream_positions(fs)),
          director_counts |-> most_common_10(director_counts_of(fs, <<>>)),
          rating_distribution |-> sort_by_key(counter_update(<<>>, ratings_of(fs))),
          mood_analysis |-> calculate_mood_analysis(fs),
          films_by_decade |-> films_by_decade_sorted(fs) ]

\* "if not films": the empty list takes the path of the others
takes_empty_path_never(fs) == FALSE

\* "if not films"
takes_empty_path(fs) == fs = <<>>

\* the films sorted in place: films.sort(...) instead of the sort of the copy
input_sorted_in_place(fs) ==
    LET ranked == films_with_scores(fs)
    IN  [k \in 1 .. Len(fs) |-> fs[ranked[k][1]]]

\* the list films after the call: the sorts of calculate_obscurity_stats and
\* calculate_obscurity_score work on lists they built, never on films
input_after_stats(fs) == fs

\* calculate_obscurity_stats(films, username): whether it raises, the report it
\* returns, the functions of the module it called, and the positions in films
\* of the entries of the two ranked lists and of the lists of films_by_decade
calculate_obscurity_stats(fs, username) ==
    IF takes_empty_path(fs)
    THEN [ raises |-> FALSE, report |-> Some(empty_report(username)), calls |-> <<>>,
           most_obscure |-> <<>>, most_mainstream |-> <<>>, by_decade |-> <<>> ]
    ELSE IF mood_analysis_raises(fs)
         THEN [ raises |-> TRUE, report |-> None,
                calls |-> <<"calculate_obscurity_score", "get_film_obscurity",
                            "calculate_mood_analysis">>,
                most_obscure |-> <<>>, most_mainstream |-> <<>>, by_decade |-> <<>> ]
         ELSE [ raises |-> FALSE, report |-> Some(full_report(fs, username)),
                calls |-> <<"calculate_obscurity_score", "get_film_obscurity",
                            "calculate_mood_analysis", "get_film_obscurity">>,
                most_obscure |-> most_obscure_positions(fs),
                most_mainstream |-> most_mainstream_positions(fs),
                by_decade |-> films_by_decade_positions(fs) ]

----------------------------------------------------------------------------
(* scraper.py: get_user_films, the merge of the scraped list with the database *)

(* A scraped film is [slug, data]: data tells where its fields last came    *)
(* from ("page" as scraped, "db" after film.update(db_film), "stats" after *)
(* enrich_with_letterboxd_stats).  db_films maps a slug of the database to  *)
(* "complete" or "incomplete": whether the film lacks none of title, year, *)
(* letterboxd_watches, poster_path after the update.                        *)

\* "slug and slug in db_films", and "f.get('slug') in db_films"
in_db(f, db) == f.slug # None /\ f.slug[1] \in DOMAIN db

\* film.update({k: v for k, v in db_film.items() if k != 'user_rating'})
update_from_db(f) == [f EXCEPT !.data = "db"]

\* "for film in films" of the merge: the complete films of the database
RECURSIVE complete_films(_, _)
complete_films(fs, db) ==
    IF fs = <<>> THEN <<>>
    ELSE (IF in_db(Head(fs), db) /\ db[Head(fs).slug[1]] = "complete"
          THEN <<update_from_db(Head(fs))>> ELSE <<>>)
         \o complete_films(Tail(fs), db)

\* the same loop: films_to_scrape, the incomplete films updated from the database
RECURSIVE films_to_scrape_of(_, _)
films_to_scrape_of(fs, db) ==
    IF fs = <<>> THEN <<>>
    ELSE (IF in_db(Head(fs), db)
          THEN (IF db[Head(fs).slug[1]] = "complete" THEN <<>>
                ELSE <<update_from_db(Head(fs))>>)
          ELSE <<Head(fs)>>)
         \o films_to_scrape_of(Tail(fs), db)

\* "for film in ...: if slug and slug in db_films: film.update(...);
\* enriched_films.append(film)"
use_as_is(fs, db) ==
    [k \in 1 .. Len(fs) |-> IF in_db(fs[k], db) THEN update_from_db(fs[k]) ELSE fs[k]]

\* enrich_with_letterboxd_stats(films): the same list, every film updated in place
enrich_with_letterboxd_stats(fs) == [k \in 1 .. Len(fs) |-> [fs[k] EXCEPT !.data = "stats"]]

\* s[:n]
take(s, n) == SubSeq(s, 1, Min(n, Len(s)))

\* s[n:]
drop(s, n) == SubSeq(s, Min(n, Len(s)) + 1, Len(s))

\* the lines after the database lookup: the list that get_user_films returns
merge_with_database(fs, db, used_rss, max) ==
    LET enriched == complete_films(fs, db)
        films_to_scrape == films_to_scrape_of(fs, db)
        films_not_in_db == SelectSeq(films_to_scrape, LAMBDA f : ~ in_db(f, db))
        films_missing_info == SelectSeq(films_to_scrape, LAMBDA f : in_db(f, db))
    IN  IF films_to_scrape = <<>> THEN enriched
        ELSE IF used_rss THEN enriched \o use_as_is(films_to_scrape, db)
        ELSE IF max = 0 THEN enriched \o use_as_is(films_to_scrape, db)
        ELSE IF Len(films_to_scrape) > max
        THEN LET films_to_scrape_now == take(films_not_in_db \o films_missing_info, max)
                 films_to_skip == drop(films_to_scrape, max)
             IN  enriched \o enrich_with_letterboxd_stats(films_to_scrape_now)
                          \o use_as_is(films_to_skip, db)
        ELSE enriched \o enrich_with_letterboxd_stats(films_to_scrape)

----------------------------------------------------------------------------
(* scraper.py: get_user_films, the page loop *)

(* What a fetch of a page gives: "films" (parse_films_page finds films),  *)
(* "empty" (it finds none), "cloudflare", "not_found", "private",         *)
(* "invalid" (the four tests on the html), or an exception of the fetch:  *)
(* "client_error" (aiohttp.ClientError), "blocked" (CLOUDFLARE_BLOCKED:   *)
(* 403 Forbidden), "fetch_404" (404 Not Found: ...), "fetch_failed" (any  *)
(* other).  An exception is [kind, username]: its text is error_text.     *)

\* max_empty_pages = 2
max_empty_pages == 2

\* the counter kept as it is on a page with films
after_films_page_kept(count) == count

\* consecutive_empty_pages = 0  # Reset counter
after_films_page(count) == 0

\* "CLOUDFLARE_BLOCKED" in error_msg or "403" in error_msg, for the usernames
\* and the texts of the model
is_blocked_message(kind, user) ==
    \/ kind = "blocked"
    \/ kind \in {"user_not_found", "private", "invalid"} /\ user = "user403"

\* the exception that leaves the try block for a page outcome that raises
exception_of(outcome, p) ==
    CASE outcome = "cloudflare" -> "cloudflare_protection"
      [] outcome = "not_found" -> "user_not_found"
      [] outcome = "private" -> "private"
      [] outcome = "invalid" -> "invalid"
      [] outcome = "client_error" -> "client_error"
      [] outcome = "blocked" -> "blocked"
      [] outcome = "fetch_404" -> "fetch_404"
      [] outcome = "fetch_failed" -> "fetch_failed"

\* one pass of "while True": the state after it.  films_of_page are the films
\* parse_films_page finds, rss what get_user_films_from_rss gives when called
\* ("films", "empty" or "error"), rss_films its films.
page_pass(st, outcome, films_of_page, rss, rss_films) ==
    LET stop == [st EXCEPT !.pc = "loop_done"]
        fails(kind) == [st EXCEPT !.pc = "raised",
                                  !.raised = Some([kind |-> kind, username |-> st.username])]
        from_rss == [st EXCEPT !.pc = "loop_done", !.films = rss_films, !.used_rss = TRUE]
        \* the handler "except Exception as e" of the loop
        handled(kind) ==
            IF is_blocked_message(kind, st.username) /\ st.page = 1 /\ ~ st.used_rss
               /\ rss = "films"
            THEN from_rss ELSE fails(kind)
    IN  CASE outcome = "cloudflare" ->
                 IF st.page = 1
                 THEN (IF rss = "films" THEN from_rss ELSE handled("cloudflare_protection"))
                 ELSE stop
          [] outcome \in {"not_found", "private", "invalid"} ->
                 IF st.page = 1 THEN handled(exception_of(outcome, st.page)) ELSE stop
          [] outcome = "empty" ->
                 IF st.empty + 1 >= max_empty_pages
                 THEN [stop EXCEPT !.empty = st.empty + 1]
                 ELSE [st EXCEPT !.empty = st.empty + 1, !.page = st.page + 1]
          [] outcome = "films" ->
                 [st EXCEPT !.empty = after_films_page(st.empty),
                            !.films = st.films \o films_of_page,
                            !.page = st.page + 1]
          [] outcome = "client_error" -> fails("client_error")
          [] outcome \in {"blocked", "fetch_404", "fetch_failed"} ->
                 handled(exception_of(outcome, st.page))

\* "if not films: raise Exception(...)" after the loop, then the merge with the
\* database and the return
after_loop(st, db, max) ==
    IF st.films = <<>>
    THEN [st EXCEPT !.pc = "raised",
                    !.raised = Some([kind |-> "no_films", username |-> st.username])]
    ELSE [st EXCEPT !.pc = "collected",
                    !.enriched = Some(merge_with_database(st.films, db, st.used_rss, max))]

----------------------------------------------------------------------------
(* scraper.py: get_film_stats *)

\* retries: int = 3
default_retries == 3

\* the exceptions of "except (aiohttp.ClientError, asyncio.TimeoutError,
\* ConnectionError, OSError)"
ConnectionErrors == {"ClientError", "TimeoutError", "ConnectionError", "OSError"}

\* a handler that goes on after any exception
retried_always(outcome) == outcome \notin {"stats", "no_stats"}

\* whether the exception of an attempt is one the loop goes on after
retried(outcome) == outcome \in ConnectionErrors

\* the dict of an attempt that raises nothing: the parsed stats, or {} when
\* neither page was usable
stats_of(outcome) == IF outcome = "stats" THEN [letterboxd_watches |-> 1200] ELSE <<>>

\* "if not slug: return {}" and the start of "for attempt in range(retries)"
get_film_stats_start(slug, n) ==
    IF slug = None \/ slug[1] = "" THEN [pc |-> "stats_done", returned |-> Some(<<>>)]
    ELSE IF n <= 0 THEN [pc |-> "stats_done", returned |-> Some(<<>>)]
    ELSE [pc |-> "attempting", returned |-> None]

\* one pass of "for attempt in range(retries)", attempt counted from 0
attempt_pass(i, n, outcome) ==
    IF outcome \in {"stats", "no_stats"}
    THEN [pc |-> "stats_done", attempt |-> i, returned |-> Some(stats_of(outcome))]
    ELSE IF retried(outcome)
    THEN (IF i < n - 1
          THEN [pc |-> "attempting", attempt |-> i + 1, returned |-> None]
          ELSE [pc |-> "stats_done", attempt |-> i, returned |-> Some(<<>>)])
    ELSE [pc |-> "stats_done", attempt |-> i, returned |-> Some(<<>>)]

----------------------------------------------------------------------------
(* database.py: save_film *)

(* A film is a function from the keys it has to None or Some(value); a    *)
(* row of the table films is a record of its columns, NULL being None.    *)
(* Of the columns that save_film overwrites whenever the key is present,  *)
(* the model keeps popularity.                                            *)

\* film.get(key)
film_get(f, key) == IF key \in DOMAIN f THEN f[key] ELSE None

\* the truth value of a text or None
truthy(v) == v # None /\ v[1] # ""

\* slug = film.get('slug') or film.get('letterboxd_slug')
slug_of(f) == IF truthy(film_get(f, "slug")) THEN film_get(f, "slug") ELSE film_get(f, "letterboxd_slug")

\* SELECT id FROM films WHERE letterboxd_slug = ?
rows_with_slug(rows, slug) == { k \in 1 .. Len(rows) : rows[k].letterboxd_slug = slug }

\* a guard that is the presence of the key alone
key_in_film(f, key) == key \in DOMAIN f

\* 'title' in film and film.get('title')
provided_text(f, key) == key \in DOMAIN f /\ truthy(f[key])

\* 'year' in film and film.get('year') is not None
provided_value(f, key) == key \in DOMAIN f /\ f[key] # None

\* the UPDATE of the row of an existing film
updated_row(row, f) ==
    [ id |-> row.id,
      letterboxd_slug |-> row.letterboxd_slug,
      title |-> IF provided_text(f, "title") THEN f["title"] ELSE row.title,
      year |-> IF provided_value(f, "year") THEN f["year"] ELSE row.year,
      letterboxd_watches |-> IF provided_value(f, "letterboxd_watches")
                             THEN f["letterboxd_watches"] ELSE row.letterboxd_watches,
      popularity |-> IF key_in_film(f, "popularity") THEN f["popularity"] ELSE row.popularity,
      director |-> IF provided_text(f, "director") THEN f["director"] ELSE row.director ]

\* the row of the INSERT of a new film; AUTOINCREMENT gives the next id
inserted_row(rows, slug, f) ==
    [ id |-> Len(rows) + 1,
      letterboxd_slug |-> slug,
      title |-> film_get(f, "title"),
      year |-> film_get(f, "year"),
      letterboxd_watches |-> film_get(f, "letterboxd_watches"),
      popularity |-> film_get(f, "popularity"),
      director |-> film_get(f, "director") ]

\* title TEXT NOT NULL
violates_not_null(row) == row.title = None

\* save_film(film) on the table rows: the table after the call and whether
\* the call raised (sqlite3.IntegrityError, after the rollback)
save_film(rows, f) ==
    LET slug == slug_of(f)
        exists == rows_with_slug(rows, slug)
    IN  IF ~ truthy(slug) THEN [table |-> rows, raised |-> FALSE]
        ELSE IF exists # {}
        THEN [table |-> [ k \in 1 .. Len(rows) |->
                            IF k \in exists THEN updated_row(rows[k], f) ELSE rows[k] ],
              raised |-> FALSE]
        ELSE IF violates_not_null(inserted_row(rows, slug, f))
        THEN [table |-> rows, raised |-> TRUE]
        ELSE [table |-> Append(rows, inserted_row(rows, slug, f)), raised |-> FALSE]

----------------------------------------------------------------------------
(* main.py: analyze_user *)

\* request.username.strip().lower(), for the usernames of the model
strip_lower(raw) ==
    CASE raw = "" -> ""
      [] raw = "  " -> ""
      [] raw = " Alice " -> "alice"
      [] raw = "user403" -> "user403"

\* "not found" in error_msg.lower(), for the texts of the exceptions of
\* get_user_films and the usernames of the model:
\*   user_not_found  "User '...' not found"
\*   fetch_404       "404 Not Found: User or page does not exist"
\*   no_films        "No films found for user '...'. Make sure the profile is public."
\*   the others have neither "not" nor "found" outside the username
contains_not_found(kind) == kind \in {"user_not_found", "fetch_404"}

\* the text of an exception of get_user_films, in pieces
error_text(e) ==
    CASE e.kind = "user_not_found" -> <<"User '", e.username, "' not found">>
      [] e.kind = "private" ->
             <<"User '", e.username, "' profile is private. Make sure the profile is public.">>
      [] e.kind = "invalid" ->
             <<"Received empty or invalid response from Letterboxd for user '", e.username, "'">>
      [] e.kind = "no_films" ->
             <<"No films found for user '", e.username, "'. Make sure the profile is public.">>
      [] e.kind = "cloudflare_protection" -> <<"Cloudflare protection detected. ">>
      [] e.kind = "client_error" -> <<"Error fetching data: ">>
      [] e.kind = "blocked" -> <<"CLOUDFLARE_BLOCKED: 403 Forbidden">>
      [] e.kind = "fetch_404" -> <<"404 Not Found: User or page does not exist">>
      [] e.kind = "fetch_failed" -> <<"HTTP 500 error: ">>

\* the handler "except Exception as e" of analyze_user
response_to_exception(e) ==
    IF contains_not_found(e.kind)
    THEN [status |-> 404, detail |-> error_text(e)]
    ELSE [status |-> 500, detail |-> <<"Error analyzing user. Please try again later.">>]

\* analyze_user after "films = await get_user_films(username)": the response and
\* the lists calculate_obscurity_stats is called with.  outcome is what
\* get_user_films did ("collected" with the list, or "raised" with the
\* exception), stats_raises whether calculate_obscurity_stats raises.
analyze_after_scrape(user, outcome, fs, e, stats_raises) ==
    IF outcome = "raised" THEN [response |-> response_to_exception(e), calls |-> <<>>]
    ELSE IF fs = <<>>
    THEN [response |-> [status |-> 404,
                        detail |-> <<"No films found for user '", user,
                                     "'. Make sure the profile is public.">>],
          calls |-> <<>>]
    ELSE IF stats_raises
    THEN [response |-> [status |-> 500,
                        detail |-> <<"Error analyzing user. Please try again later.">>],
          calls |-> <<fs>>]
    ELSE [response |-> [status |-> 200, detail |-> <<"stats">>], calls |-> <<fs>>]

----------------------------------------------------------------------------
(* Inputs of the curve *)

ControlWatches == { SCORE_CURVE[i].watches : i \in 1 .. Len(SCORE_CURVE) }

NearControl == UNION { (c - Radius) .. (c + Radius) : c \in ControlWatches }

Cuts ==
    { SCORE_CURVE[i + 1].watches
        + (k * (SCORE_CURVE[i].watches - SCORE_CURVE[i + 1].watches)) \div Parts :
      i \in Brackets, k \in 0 .. Parts }

WatchDomain ==
    NearControl \cup Cuts \cup ((0 - Radius) .. Radius)
        \cup { 500, 3000000, 4250000, 10000000, 0 - 1000000 }

----------------------------------------------------------------------------
(* Two calls of calculate_obscurity_from_watches, one after the other *)

\* get_user_films has not been called
IdleScraper ==
    /\ user_films = <<>>
    /\ db_films = <<>>
    /\ used_rss_fallback = FALSE
    /\ max_to_scrape = 0
    /\ enriched_films = None
    /\ profile = ""
    /\ page = 1
    /\ consecutive_empty_pages = 0
    /\ fetched = <<>>
    /\ raised = None

IdleHttp ==
    /\ response = None
    /\ stats_called_with = <<>>

IdleRetry ==
    /\ stats_slug = None
    /\ retries = 0
    /\ attempt = 0
    /\ attempts = <<>>
    /\ stats_returned = None

IdleDb ==
    /\ table = <<>>
    /\ save_slug = None
    /\ save_outcome = "none"
    /\ save_kept = {}

IdleOther == IdleHttp /\ IdleRetry /\ IdleDb

IdleIO == IdleScraper /\ IdleOther

IdleCore ==
    /\ films = <<>>
    /\ score_out = None
    /\ bonus_out = None
    /\ stats_out = <<>>
    /\ watches = <<0, 0>>
    /\ curve_out = <<>>
    /\ film = None
    /\ film_out = None

InitCurve ==
    /\ pc = "curve"
    /\ watches \in WatchDomain \X WatchDomain
    /\ curve_out = <<>>
    /\ film = None
    /\ film_out = None
    /\ IdleIO
    /\ films = <<>>
    /\ score_out = None
    /\ bonus_out = None
    /\ stats_out = <<>>

CurveCall ==
    /\ pc = "curve"
    /\ Len(curve_out) < 2
    /\ curve_out' = Append(curve_out, curve_call(watches[Len(curve_out) + 1]))
    /\ pc' = IF Len(curve_out) = 1 THEN "curve_done" ELSE "curve"
    /\ UNCHANGED <<watches, film, film_out, films, score_out, bonus_out, stats_out, io_vars>>

NextCurve == CurveCall

SpecCurve == InitCurve /\ [][NextCurve]_vars

----------------------------------------------------------------------------
(* One call of get_film_obscurity *)

WatchesDomain == {None} \cup { Some(w) : w \in {0 - 5, 0, 1, 1000, 3000000, 10000000} }

PopularityDomain == {None} \cup { Some(p) : p \in {0 - 1, 0, 1, 5, 6, 50, 51, 1000} }

VoteDomain == {None} \cup { Some(v) : v \in {0, 100, 101, 100000} }

PosterDomain == {None, Some(""), Some("/poster.jpg")}

GenresDomain == {None, Some(<<>>), Some(<<"Drama">>)}

FilmDomain ==
    [ letterboxd_watches : WatchesDomain,
      popularity : PopularityDomain,
      vote_count : VoteDomain,
      poster_path : PosterDomain,
      genres : GenresDomain,
      production_countries : {None},
      year : {None} ]

InitFilm ==
    /\ pc = "film"
    /\ film \in { Some(f) : f \in FilmDomain }
    /\ film_out = None
    /\ IdleIO
    /\ watches = <<0, 0>>
    /\ curve_out = <<>>
    /\ films = <<>>
    /\ score_out = None
    /\ bonus_out = None
    /\ stats_out = <<>>

ResolveFilm ==
    /\ pc = "film"
    /\ film_out' = Some(get_film_obscurity(film[1]))
    /\ pc' = "film_done"
    /\ UNCHANGED <<watches, curve_out, film, films, score_out, bonus_out, stats_out, io_vars>>

NextFilm == CurveCall \/ ResolveFilm

\* calls of the curve alone, or one call of the resolver
SpecFilm == (InitCurve \/ InitFilm) /\ [][NextFilm]_vars

----------------------------------------------------------------------------
(* The caller collects a film list, then calls calculate_obscurity_score *)

BareFilm(w) ==
    [ letterboxd_watches |-> w, popularity |-> None, vote_count |-> None,
      poster_path |-> None, genres |-> None,
      production_countries |-> None, year |-> None ]

\* a pre-1980 film from outside the US and the UK, known to TMDb
WorldClassic(w) ==
    [ letterboxd_watches |-> w, popularity |-> Some(60), vote_count |-> Some(1000),
      poster_path |-> Some("/poster.jpg"), genres |-> Some(<<"Drama">>),
      production_countries |-> Some(<<"France">>), year |-> Some(1975) ]

ListWatches == {None} \cup { Some(w) : w \in {0 - 5, 0, 1000, 3000000, 5000000} }

ListFilmDomain == { BareFilm(w) : w \in ListWatches } \cup { WorldClassic(w) : w \in ListWatches }

Init ==
    /\ pc = "collect"
    /\ films = <<>>
    /\ score_out = None
    /\ bonus_out = None
    /\ stats_out = <<>>
    /\ watches = <<0, 0>>
    /\ curve_out = <<>>
    /\ film = None
    /\ film_out = None
    /\ IdleIO

AddFilm ==
    /\ pc = "collect"
    /\ Len(films) < MaxFilms
    /\ \E f \in ListFilmDomain : films' = Append(films, f)
    /\ UNCHANGED <<pc, watches, curve_out, film, film_out, score_out, bonus_out, stats_out, io_vars>>

CalculateScore ==
    /\ pc = "collect"
    /\ score_out' = Some(calculate_obscurity_score(films))
    /\ pc' = "scored"
    /\ UNCHANGED <<watches, curve_out, film, film_out, films, bonus_out, stats_out, io_vars>>

Next == AddFilm \/ CalculateScore

Spec == Init /\ [][Next]_vars

----------------------------------------------------------------------------
(* Inputs of the report *)

FilmKeys ==
    {"title", "year", "letterboxd_watches", "popularity", "vote_count", "genres",
     "production_countries", "director", "user_rating", "poster_path"}

\* the record {} when nulls is empty, else the record whose keys in nulls are None
PartialFilm(nulls) ==
    [ title |-> None, year |-> None, letterboxd_watches |-> None, popularity |-> None,
      vote_count |-> None, genres |-> None, production_countries |-> None,
      director |-> None, user_rating |-> None, poster_path |-> None,
      null_keys |-> nulls ]

StatsFilm(title, year, w, popularity, votes, genres, countries, director, rating, poster) ==
    [ title |-> title, year |-> year, letterboxd_watches |-> w, popularity |-> popularity,
      vote_count |-> votes, genres |-> genres, production_countries |-> countries,
      director |-> director, user_rating |-> rating, poster_path |-> poster,
      null_keys |-> {} ]

StatsFilmDomain ==
    { PartialFilm({}),
      PartialFilm(FilmKeys \ {"genres"}),
      PartialFilm({"genres"}),
      StatsFilm(Some("Le Cercle"), Some(1975), Some(1000), Some(60), Some(1000),
                Some(<<"Drama", "Mystery">>), Some(<<"France">>), Some("Melville"),
                Some(7), Some("/a.jpg")),
      StatsFilm(Some("Blockbuster"), Some(1994), Some(3000000), None, None,
                Some(<<"Action", "Science Fiction">>), Some(<<"USA">>), Some("Cameron"),
                Some(10), None),
      StatsFilm(Some("Coproduction"), Some(1985), None, Some(60), Some(1000),
                Some(<<"Comedy">>), Some(<<"USA", "France">>), Some("Melville"),
                Some(0), None),
      StatsFilm(Some(""), Some(1979), Some(0), None, None,
                Some(<<>>), Some(<<>>), Some(""), None, None),
      StatsFilm(Some("Seventies"), Some(1972), Some(5000000), None, None,
                Some(<<"Drama">>), Some(<<"UK">>), Some("Cameron"), Some(7), None),
      StatsFilm(Some("Kaidan"), None, Some(0 - 5), None, None,
                Some(<<"Horror", "TV Movie">>), Some(<<"Japan">>), None, Some(9), None) }

Usernames == {"alice", "bob"}

InitStats ==
    /\ pc = "stats_collect"
    /\ films = <<>>
    /\ score_out = None
    /\ bonus_out = None
    /\ stats_out = <<>>
    /\ watches = <<0, 0>>
    /\ curve_out = <<>>
    /\ film = None
    /\ film_out = None
    /\ IdleIO

StatsAddFilm ==
    /\ pc = "stats_collect"
    /\ Len(films) < MaxStatsFilms
    /\ \E f \in StatsFilmDomain : films' = Append(films, f)
    /\ UNCHANGED <<pc, watches, curve_out, film, film_out, score_out, bonus_out, stats_out, io_vars>>

CalculateBonus ==
    /\ pc = "stats_collect"
    /\ bonus_out' = Some(calculate_diversity_bonus(films))
    /\ pc' = "bonus_done"
    /\ UNCHANGED <<watches, curve_out, film, film_out, films, score_out, stats_out, io_vars>>

\* one call of calculate_obscurity_stats(films, username); stats_out keeps the
\* arguments of the call beside its result
CalculateStats ==
    /\ pc \in {"stats_collect", "rank_collect", "decade_collect", "top_collect"}
    /\ \E username \in Usernames :
          stats_out' = <<[ username |-> username, input |-> films,
                           result |-> calculate_obscurity_stats(films, username) ]>>
    /\ films' = input_after_stats(films)
    /\ pc' = "reported"
    /\ UNCHANGED <<watches, curve_out, film, film_out, score_out, bonus_out, io_vars>>

\* a second call, on the same list object and with the same username
CalculateStatsAgain ==
    /\ pc = "reported"
    /\ stats_out' = Append(stats_out,
                           [ username |-> stats_out[1].username, input |-> films,
                             result |-> calculate_obscurity_stats(films, stats_out[1].username) ])
    /\ films' = input_after_stats(films)
    /\ pc' = "reported_twice"
    /\ UNCHANGED <<watches, curve_out, film, film_out, score_out, bonus_out, io_vars>>

NextStats == StatsAddFilm \/ CalculateBonus \/ CalculateStats \/ CalculateStatsAgain

SpecStats == InitStats /\ [][NextStats]_vars

(* Inputs of the ranking: lists long enough for the two lists of five to part *)

RankFilm(title, w) ==
    StatsFilm(Some(title), Some(1990), w, None, None, Some(<<"Drama">>), None, None,
              None, None)

RankFilmDomain ==
    { RankFilm("Obscure", Some(1000)), RankFilm("Middle", Some(700000)),
      RankFilm("Mainstream", Some(5000000)) }

\* the kinds of film at a position of the list: all three at the head of the
\* list, the two extremes behind it
RankFilmsAt(position) ==
    IF position <= MaxVaried THEN RankFilmDomain
    ELSE RankFilmDomain \ {RankFilm("Middle", Some(700000))}

InitRank ==
    /\ pc = "rank_collect"
    /\ films = <<>>
    /\ score_out = None
    /\ bonus_out = None
    /\ stats_out = <<>>
    /\ watches = <<0, 0>>
    /\ curve_out = <<>>
    /\ film = None
    /\ film_out = None
    /\ IdleIO

RankAddFilm ==
    /\ pc = "rank_collect"
    /\ Len(films) < MaxRankFilms
    /\ \E f \in RankFilmsAt(Len(films) + 1) : films' = Append(films, f)
    /\ UNCHANGED <<pc, watches, curve_out, film, film_out, score_out, bonus_out, stats_out, io_vars>>

NextRank == RankAddFilm \/ CalculateStats

SpecRank == InitRank /\ [][NextRank]_vars

(* Inputs of the decade lists: two films of the 1990s whose scores, 53.5 and *)
(* 53.475, differ by less than the rounding of the entries, an older one and *)
(* a film without a year                                                     *)

DecadeFilmDomain ==
    { StatsFilm(Some("Mid"), Some(1995), Some(700000), None, None, None, None, None,
                None, None),
      StatsFilm(Some("Near"), Some(1990), Some(701000), None, None, None, None, None,
                None, None),
      StatsFilm(Some("Old"), Some(1975), Some(1000), None, None, None, None, None,
                None, None),
      PartialFilm({}) }

InitDecade ==
    /\ pc = "decade_collect"
    /\ films = <<>>
    /\ score_out = None
    /\ bonus_out = None
    /\ stats_out = <<>>
    /\ watches = <<0, 0>>
    /\ curve_out = <<>>
    /\ film = None
    /\ film_out = None
    /\ IdleIO

DecadeAddFilm ==
    /\ pc = "decade_collect"
    /\ Len(films) < MaxDecadeFilms
    /\ \E f \in DecadeFilmDomain : films' = Append(films, f)
    /\ UNCHANGED <<pc, watches, curve_out, film, film_out, score_out, bonus_out, stats_out, io_vars>>

NextDecade == DecadeAddFilm \/ CalculateStats

SpecDecade == InitDecade /\ [][NextDecade]_vars

(* Inputs of the top-10 breakdowns: lists with more than ten genres, countries *)
(* and directors.  The film at a position is the film of that number, or the  *)
(* film of half that number once more, or at the head a film without them.    *)

DirectorNames ==
    <<"Akerman", "Bresson", "Chabrol", "Denis", "Eustache", "Franju", "Godard",
      "Honore", "Ivens", "Jeunet", "Kassovitz", "Leconte", "Marker">>

GenreNames ==
    <<"Action", "Adventure", "Animation", "Comedy", "Crime", "Documentary", "Drama",
      "Family", "Fantasy", "History", "Horror", "Music", "Mystery">>

CountryNames ==
    <<"Argentina", "Belgium", "Chile", "Denmark", "Egypt", "France", "Germany",
      "Hungary", "India", "Japan", "Kenya", "Latvia", "Mexico">>

\* the film of a number: its own director and country, its own genre and the
\* genre of the number before
TopFilm(number) ==
    StatsFilm(Some("Film"), Some(1990), Some(1000), None, None,
              Some(IF number = 1 THEN <<GenreNames[1]>>
                   ELSE <<GenreNames[number], GenreNames[number - 1]>>),
              Some(<<CountryNames[number]>>), Some(DirectorNames[number]), None, None)

UncreditedFilm ==
    StatsFilm(Some("Uncredited"), None, None, None, None, Some(<<>>), None, Some(""),
              None, None)

TopFilmsAt(position) ==
    IF position = 1 THEN {TopFilm(1), UncreditedFilm}
    ELSE {TopFilm(position), TopFilm(position \div 2)}

InitTop ==
    /\ pc = "top_collect"
    /\ films = <<>>
    /\ score_out = None
    /\ bonus_out = None
    /\ stats_out = <<>>
    /\ watches = <<0, 0>>
    /\ curve_out = <<>>
    /\ film = None
    /\ film_out = None
    /\ IdleIO

TopAddFilm ==
    /\ pc = "top_collect"
    /\ Len(films) < MaxTopFilms
    /\ \E f \in TopFilmsAt(Len(films) + 1) : films' = Append(films, f)
    /\ UNCHANGED <<pc, watches, curve_out, film, film_out, score_out, bonus_out, stats_out, io_vars>>

NextTop == TopAddFilm \/ CalculateStats

SpecTop == InitTop /\ [][NextTop]_vars

----------------------------------------------------------------------------
(* Properties of the popularity curve, over the two calls of SpecCurve *)

CurveDone == pc = "curve_done"

\* the line through the two control points of bracket i, written from its lower end
LineOfBracket(i, w) ==
    LET upper == SCORE_CURVE[i]
        lower == SCORE_CURVE[i + 1]
    IN  Points(lower.score)
          - ((w - lower.watches) * (lower.score - upper.score))
              * (ScoreUnit \div (upper.watches - lower.watches))

\* every bracket width divides ScoreUnit, so the scores above are exact
ScoreUnitExact ==
    \A i \in Brackets :
        ScoreUnit % (SCORE_CURVE[i].watches - SCORE_CURVE[i + 1].watches) = 0

\* C1: for 0 < a < b the score of a is at least the score of b (more watches
\* never give a higher obscurity score), across clamps and control points too.
CurveMonotone ==
    (CurveDone /\ 0 < watches[1] /\ watches[1] < watches[2])
        => curve_out[1].score >= curve_out[2].score

\* a below the low clamp boundary, b beyond the first control point above it
CurveMonotoneWitness ==
    /\ CurveDone
    /\ 0 < watches[1] /\ watches[1] < 1000
    /\ watches[2] > 5000 /\ watches[2] < 10000
    /\ curve_out[1].score > curve_out[2].score

CurveClamps ==
    CurveDone =>
        \A k \in 1 .. 2 :
            /\ watches[k] >= 5000000 => curve_out[k].score = Points(5)
            /\ (0 < watches[k] /\ watches[k] <= 1000) => curve_out[k].score = Points(99)

CurveClampsWitness ==
    /\ CurveDone
    /\ watches = <<10000000, 500>>
    /\ curve_out[1] = [score |-> Points(5), exit |-> "clamp_high"]
    /\ curve_out[2] = [score |-> Points(99), exit |-> "clamp_low"]

\* C4, as claimed: for every integer watch count, those <= 0 included, the
\* score lies between the lowest table score 5 and the highest 99.
CurveWithinTableAlways ==
    CurveDone =>
        \A k \in 1 .. 2 :
            Points(5) <= curve_out[k].score /\ curve_out[k].score <= Points(99)

\* C4, amended: for every watch count > 0 the score lies between 5 and 99;
\* for a watch count <= 0 it is the sentinel 100, above the table.
CurveWithinTableIfPositive ==
    CurveDone =>
        \A k \in 1 .. 2 :
            /\ watches[k] > 0 =>
                  (Points(5) <= curve_out[k].score /\ curve_out[k].score <= Points(99))
            /\ watches[k] <= 0 => curve_out[k].score = Points(100)

\* a zero watch count and an interpolated one have been scored
CurveWithinTableWitness ==
    /\ CurveDone
    /\ watches[1] = 0 /\ curve_out[1].score = Points(100)
    /\ watches[2] = 3000000 /\ curve_out[2].score = Points(14)

----------------------------------------------------------------------------
(* Properties of the per-film resolver, over the call of SpecFilm *)

FilmDone == pc = "film_done"

\* a value is present and positive
PresentPositive(opt) == opt # None /\ opt[1] > 0

\* C5: for every w >= 0 the curve score lies in [0, 100], and for every film
\* record (watch count, popularity, vote count, poster, genres each present,
\* absent, zero or negative) the score of get_film_obscurity lies in [0, 100].
ScoreInRange ==
    /\ CurveDone =>
          \A k \in 1 .. 2 :
              watches[k] >= 0 =>
                  (0 <= curve_out[k].score /\ curve_out[k].score <= Points(100))
    /\ FilmDone =>
          (0 <= film_out[1].score /\ film_out[1].score <= Points(100))

\* a negative watch count beside a large popularity: scored through the estimate
ScoreInRangeWitness ==
    /\ FilmDone
    /\ film[1].letterboxd_watches = Some(0 - 5)
    /\ film[1].popularity = Some(1000)
    /\ film_out[1] = [score |-> Points(5), source |-> "tmdb"]

\* the rules of the resolver in the order the claim lists them
FirstApplicableRule(f) ==
    LET w == f.letterboxd_watches
        p == f.popularity
        v == f.vote_count
    IN  IF w # None /\ w[1] > 0
        THEN [score |-> calculate_obscurity_from_watches(w[1]), source |-> "letterboxd"]
        ELSE IF w # None /\ w[1] = 0
        THEN [score |-> Points(100), source |-> "letterboxd"]
        ELSE IF p # None /\ p[1] > 5
        THEN [score |-> calculate_obscurity_from_watches(
                            estimated_watches_from_popularity(p[1])),
              source |-> "tmdb"]
        ELSE IF p # None /\ 0 < p[1] /\ p[1] <= 5
        THEN [score |-> Points(92), source |-> "tmdb_low"]
        ELSE IF v # None /\ v[1] > 100
        THEN [score |-> calculate_obscurity_from_watches(
                            estimated_watches_from_votes(v[1])),
              source |-> "tmdb_votes"]
        ELSE IF (f.poster_path # None /\ f.poster_path[1] # "")
                  \/ (f.genres # None /\ f.genres[1] # <<>>)
        THEN [score |-> Points(75), source |-> "tmdb_no_pop"]
        ELSE [score |-> Points(100), source |-> "none"]

\* a watch count that rule 1 or rule 2 takes: present and not negative
\* (a negative one is passed over like an absent one)
HasWatchCount(f) == f.letterboxd_watches # None /\ f.letterboxd_watches[1] >= 0

ZeroWatchRule ==
    (FilmDone /\ film[1].letterboxd_watches = Some(0))
        => film_out[1] = [score |-> Points(100), source |-> "letterboxd"]

\* zero watches beside every secondary signal
ZeroWatchRuleWitness ==
    /\ FilmDone
    /\ film[1].letterboxd_watches = Some(0)
    /\ film[1].popularity = Some(1000)
    /\ film[1].vote_count = Some(100000)
    /\ film[1].poster_path = Some("/poster.jpg")
    /\ film[1].genres = Some(<<"Drama">>)
    /\ film_out[1] = [score |-> Points(100), source |-> "letterboxd"]

AllAbsent(f) ==
    /\ f.letterboxd_watches = None
    /\ f.popularity = None
    /\ f.vote_count = None
    /\ f.poster_path = None
    /\ f.genres \in {None, Some(<<>>)}

----------------------------------------------------------------------------
(* Properties of the aggregate score, over the lists of Spec *)

Scored == pc = "scored"

\* a value is present and negative
PresentNegative(opt) == opt # None /\ opt[1] < 0

\* the record with a negative watch count replaced by an absent one
NegativeAsAbsent(f) ==
    IF PresentNegative(f.letterboxd_watches)
    THEN [f EXCEPT !.letterboxd_watches = None]
    ELSE f

\* C9, as claimed: replacing a negative watch count by an absent one changes
\* neither what get_film_obscurity returns for the film nor the (score, median)
\* that calculate_obscurity_score returns for the list, and no negative value
\* enters the median.
NegativeWatchesAreAbsent ==
    Scored =>
        /\ \A i \in 1 .. Len(films) :
              get_film_obscurity(films[i]) = get_film_obscurity(NegativeAsAbsent(films[i]))
        /\ score_out[1]
              = calculate_obscurity_score([i \in 1 .. Len(films) |-> NegativeAsAbsent(films[i])])
        /\ score_out[1].median[1] >= 0

\* the watch counts of the list that are present (not None), in list order
RECURSIVE PresentWatches(_)
PresentWatches(fs) ==
    IF fs = <<>> THEN <<>>
    ELSE (IF Head(fs).letterboxd_watches # None
          THEN Head(fs).letterboxd_watches ELSE <<>>)
         \o PresentWatches(Tail(fs))

\* middle sorted value, or the floor of the average of the two middle ones
MedianOf(ws) ==
    LET s == sorted(ws)
        n == Len(s)
    IN  IF n % 2 = 1 THEN s[(n + 1) \div 2] ELSE (s[n \div 2] + s[n \div 2 + 1]) \div 2

NoNegativeWatches(fs) ==
    \A i \in 1 .. Len(fs) : ~PresentNegative(fs[i].letterboxd_watches)

\* C10, as claimed: with at least 3 present watch counts, zeros among them, the
\* result is (clamp(curve(m) + bonus), m) for m the median of all present watch
\* counts; [5,000,000; 3,000,000; 1,000] without country or year gives (14, 3,000,000).
\* Stated for the lists of valid watch counts (none negative), which is all the
\* claim needs to fail.
MedianOfAllPresentWatches ==
    (Scored /\ NoNegativeWatches(films) /\ Len(PresentWatches(films)) >= 3) =>
        LET m == MedianOf(PresentWatches(films))
        IN  /\ score_out[1]
                  = [score |-> clamp_score(calculate_obscurity_from_watches(m)
                                             + calculate_diversity_bonus(films)),
                     median |-> Some(m)]
            /\ films = <<BareFilm(Some(5000000)), BareFilm(Some(3000000)), BareFilm(Some(1000))>>
                  => score_out[1] = [score |-> Points(14), median |-> Some(3000000)]

\* C11, as claimed: when fewer than 3 films of a non-empty list have a present
\* watch count, calculate_obscurity_score returns None as the median watch
\* count, so that a numeric median is always the median of at least 3 counts.
FallbackReportsNoMedian ==
    (Scored /\ films # <<>> /\ Len(PresentWatches(films)) < 3)
        => score_out[1].median = None

\* C12, as claimed: when fewer than 3 films of a non-empty list have a present
\* watch count, the score is clamp(m + bonus, 0, 100) for m the median of the
\* per-film scores: the middle one of an odd number, the mean of the two middle
\* ones of an even number.  Both sides are doubled to keep the mean whole.
FallbackScoreIsMedianOfScores ==
    (Scored /\ films # <<>> /\ Len(PresentWatches(films)) < 3) =>
        LET s == sorted(film_scores_of(films))
            n == Len(s)
            twice_m == IF n % 2 = 1 THEN 2 * s[(n + 1) \div 2]
                       ELSE s[n \div 2] + s[n \div 2 + 1]
        IN  2 * score_out[1].score
              = Max(0, Min(2 * Points(100), twice_m + 2 * calculate_diversity_bonus(films)))

\* C13, as claimed: calculate_obscurity_score([]) returns the score 50.0 with a
\* null median watch count.
EmptyListScoresFiftyAndNull ==
    (Scored /\ films = <<>>) => score_out[1] = [score |-> Points(50), median |-> None]

\* C14: for every film list (empty, median path, fallback path, any bonus) the
\* score returned by calculate_obscurity_score lies in [0, 100].
AggregateClamped ==
    Scored => (0 <= score_out[1].score /\ score_out[1].score <= Points(100))

\* three maximally obscure films with the full bonus: 100 + 3 is cut to 100
AggregateClampedWitness ==
    /\ Scored
    /\ Len(films) = 3
    /\ \A i \in 1 .. 3 : get_film_obscurity(films[i]).score = Points(100)
    /\ calculate_diversity_bonus(films) = Points(3)
    /\ score_out[1].score = Points(100)

----------------------------------------------------------------------------
(* Claims about the diversity bonus and the report *)

BonusDone == pc = "bonus_done"

NoCountriesKnown(fs) ==
    \A i \in 1 .. Len(fs) :
        fs[i].production_countries = None \/ fs[i].production_countries = Some(<<>>)

NoYearBelow1980(fs) ==
    \A i \in 1 .. Len(fs) : fs[i].year = None \/ fs[i].year[1] >= 1980

NoFilmOutsideUSAndUK(fs) ==
    \A i \in 1 .. Len(fs) :
        \/ NoCountriesKnown(<<fs[i]>>)
        \/ \E k \in 1 .. Len(fs[i].production_countries[1]) :
              fs[i].production_countries[1][k] \in ANGLOPHONE

\* C15: the diversity bonus of every film list lies between 0 and 3; when only
\* one of its two components can contribute (no film before 1980, or no film
\* from outside the US and the UK) it is at most 1.5; and it is 0 when no film
\* has a non-empty production_countries list and no film has a year below 1980.
DiversityBonusBound ==
    BonusDone =>
        /\ 0 <= bonus_out[1] /\ bonus_out[1] <= Points(3)
        /\ NoYearBelow1980(films) => 2 * bonus_out[1] <= Points(3)
        /\ NoFilmOutsideUSAndUK(films) => 2 * bonus_out[1] <= Points(3)
        /\ (NoCountriesKnown(films) /\ NoYearBelow1980(films)) => bonus_out[1] = 0

\* three films from outside the US and the UK, none before 1980: the share of
\* the first component would be 3 and is capped at 1.5
DiversityBonusBoundWitness ==
    /\ BonusDone
    /\ Len(films) = 3
    /\ NoYearBelow1980(films)
    /\ \A i \in 1 .. 3 : is_non_anglophone(films[i])
    /\ 2 * bonus_out[1] = Points(3)

Reported == pc \in {"reported", "reported_twice"}

\* C16: the report of the empty list has obscurity_score 0, total_films 0, null
\* average rating and median, empty genre, decade, country, director, rating
\* and mood maps and empty ranked lists, and calculate_obscurity_score is not
\* called for it.
EmptyReportIdentity ==
    (Reported /\ films = <<>>) =>
        \A k \in 1 .. Len(stats_out) :
            LET result == stats_out[k].result
            IN  /\ ~ result.raises
                /\ result.report # None
                /\ \A j \in 1 .. Len(result.calls) :
                       result.calls[j] # "calculate_obscurity_score"
                /\ result.report[1].username = stats_out[k].username
                /\ result.report[1].obscurity_score = 0
                /\ result.report[1].total_films = 0
                /\ result.report[1].average_rating = None
                /\ result.report[1].median_watches = None
                /\ result.report[1].top_genres = <<>>
                /\ result.report[1].decade_breakdown = <<>>
                /\ result.report[1].country_breakdown = <<>>
                /\ result.report[1].director_counts = <<>>
                /\ result.report[1].rating_distribution = <<>>
                /\ result.report[1].most_obscure_films = <<>>
                /\ result.report[1].most_mainstream_films = <<>>
                /\ result.report[1].mood_analysis = <<>>

EmptyReportIdentityWitness ==
    /\ pc = "reported"
    /\ stats_out[1].input = <<>>
    /\ stats_out[1].result.calls = <<>>
    /\ stats_out[1].result.report[1].obscurity_score = 0
    /\ stats_out[1].result.report[1].median_watches = None

ReportFields ==
    {"username", "obscurity_score", "total_films", "average_rating", "median_watches",
     "top_genres", "decade_breakdown", "country_breakdown", "most_obscure_films",
     "most_mainstream_films", "director_counts", "rating_distribution",
     "mood_analysis", "films_by_decade"}

\* C17: every report returned, for the empty list as for a non-empty one, has
\* the same set of fields, films_by_decade among them.
ReportShape ==
    Reported =>
        \A k \in 1 .. Len(stats_out) :
            stats_out[k].result.report # None =>
                DOMAIN stats_out[k].result.report[1] = ReportFields

TotalOnPartialData ==
    (Reported /\ films # <<>>) =>
        \A k \in 1 .. Len(stats_out) :
            ~ stats_out[k].result.raises /\ stats_out[k].result.report # None

Listed(positions) == { positions[k] : k \in 1 .. Len(positions) }

ScoreAt(i) == get_film_obscurity(films[i]).score

\* C20: for n films, most_obscure_films holds min(5, n) films in non-increasing
\* order of score and no film left out scores strictly higher than a listed
\* one; most_mainstream_films holds min(5, n) films in non-decreasing order of
\* score and no film left out scores strictly lower than a listed one; the two
\* lists share no film when n >= 10.
RankedExtremes ==
    (Reported /\ films # <<>> /\ ~ stats_out[1].result.raises) =>
        LET n == Len(films)
            result == stats_out[1].result
            top == result.most_obscure
            bottom == result.most_mainstream
        IN  /\ result.report # None
            /\ result.report[1].most_obscure_films
                 = [k \in 1 .. Len(top) |-> film_summary(films[top[k]])]
            /\ result.report[1].most_mainstream_films
                 = [k \in 1 .. Len(bottom) |-> film_summary(films[bottom[k]])]
            /\ Len(top) = Min(5, n) /\ Len(bottom) = Min(5, n)
            /\ Listed(top) \subseteq 1 .. n /\ Cardinality(Listed(top)) = Len(top)
            /\ Listed(bottom) \subseteq 1 .. n /\ Cardinality(Listed(bottom)) = Len(bottom)
            /\ \A k \in 1 .. Len(top) - 1 : ScoreAt(top[k]) >= ScoreAt(top[k + 1])
            /\ \A i \in (1 .. n) \ Listed(top) :
                   \A k \in 1 .. Len(top) : ScoreAt(i) <= ScoreAt(top[k])
            /\ \A k \in 1 .. Len(bottom) - 1 : ScoreAt(bottom[k]) <= ScoreAt(bottom[k + 1])
            /\ \A i \in (1 .. n) \ Listed(bottom) :
                   \A k \in 1 .. Len(bottom) : ScoreAt(i) >= ScoreAt(bottom[k])
            /\ n >= 10 => Listed(top) \cap Listed(bottom) = {}

\* ten films, films left out of both lists, and two scores in each list
RankedExtremesWitness ==
    /\ Reported
    /\ Len(films) = 10
    /\ Len(stats_out[1].result.most_obscure) = 5
    /\ Len(stats_out[1].result.most_mainstream) = 5
    /\ Listed(stats_out[1].result.most_obscure) \cap Listed(stats_out[1].result.most_mainstream) = {}
    /\ ScoreAt(stats_out[1].result.most_obscure[1]) > ScoreAt(stats_out[1].result.most_obscure[5])
    /\ ScoreAt(stats_out[1].result.most_mainstream[1]) < ScoreAt(stats_out[1].result.most_mainstream[5])

KnownYear(i) == films[i].year # None /\ films[i].year[1] # 0

\* the positions listed for a decade are those of the entries reported for it
DecadeListsTied ==
    LET result == stats_out[1].result
        lists == result.report[1].films_by_decade
    IN  /\ Len(lists) = Len(result.by_decade)
        /\ \A d \in 1 .. Len(lists) :
               /\ lists[d][1] = result.by_decade[d][1]
               /\ lists[d][2] = [k \in 1 .. Len(result.by_decade[d][2]) |->
                                    decade_entry(films[result.by_decade[d][2][k]])]

\* C21: every list of films_by_decade has at most 5 films, all with a known
\* year of that decade, in descending order of their get_film_obscurity score,
\* and no film of the decade that is left out has a strictly higher
\* get_film_obscurity score than a film that is listed.
FilmsByDecadeMostObscure ==
    (Reported /\ films # <<>> /\ ~ stats_out[1].result.raises) =>
        /\ DecadeListsTied
        /\ \A d \in 1 .. Len(stats_out[1].result.by_decade) :
               LET decade == stats_out[1].result.by_decade[d][1]
                   listed == stats_out[1].result.by_decade[d][2]
               IN  /\ Len(listed) <= 5
                   /\ Cardinality(Listed(listed)) = Len(listed)
                   /\ \A k \in 1 .. Len(listed) :
                          KnownYear(listed[k])
                          /\ <<(films[listed[k]].year[1] \div 10) * 10, "s">> = decade
                   /\ \A k \in 1 .. Len(listed) - 1 :
                          ScoreAt(listed[k]) >= ScoreAt(listed[k + 1])
                   /\ \A i \in (1 .. Len(films)) \ Listed(listed) :
                          (KnownYear(i) /\ <<(films[i].year[1] \div 10) * 10, "s">> = decade) =>
                              \A k \in 1 .. Len(listed) : ScoreAt(i) <= ScoreAt(listed[k])

LabelOf(i) == <<(films[i].year[1] \div 10) * 10, "s">>

FilmsOfDecade(label) == { i \in 1 .. Len(films) : KnownYear(i) /\ LabelOf(i) = label }

Keys(pairs) == { pairs[k][1] : k \in 1 .. Len(pairs) }

\* C22: every film with a known year is counted in exactly one bucket of
\* decade_breakdown, labelled floor(year / 10) * 10 followed by "s", so the
\* counts sum to the number of films with a known year; films_by_decade has
\* the keys of decade_breakdown and each of its lists has length
\* min(5, decade_breakdown[decade]).
DecadeBreakdown ==
    (Reported /\ films # <<>> /\ ~ stats_out[1].result.raises) =>
        LET breakdown == stats_out[1].result.report[1].decade_breakdown
            lists == stats_out[1].result.report[1].films_by_decade
        IN  /\ Cardinality(Keys(breakdown)) = Len(breakdown)
            /\ \A i \in 1 .. Len(films) : KnownYear(i) => LabelOf(i) \in Keys(breakdown)
            /\ \A k \in 1 .. Len(breakdown) :
                   breakdown[k][2] = Cardinality(FilmsOfDecade(breakdown[k][1]))
            /\ sum_of([k \in 1 .. Len(breakdown) |-> breakdown[k][2]])
                 = Cardinality({ i \in 1 .. Len(films) : KnownYear(i) })
            /\ Cardinality(Keys(lists)) = Len(lists)
            /\ Keys(lists) = Keys(breakdown)
            /\ \A d \in 1 .. Len(lists) : \A k \in 1 .. Len(breakdown) :
                   lists[d][1] = breakdown[k][1] =>
                       Len(lists[d][2]) = Min(5, breakdown[k][2])

\* a decade of six films, of which the list keeps five
DecadeBreakdownWitness ==
    /\ Reported
    /\ Cardinality(FilmsOfDecade(<<1990, "s">>)) > 5
    /\ stats_out[1].result.report[1].decade_breakdown = << <<<<1990, "s">>, 6>> >>
    /\ Len(stats_out[1].result.report[1].films_by_decade) = 1
    /\ Len(stats_out[1].result.report[1].films_by_decade[1][2]) = 5

RatedFilms == { i \in 1 .. Len(films) : films[i].user_rating # None }

RECURSIVE SumOfRatings(_)
SumOfRatings(positions) ==
    IF positions = {} THEN 0
    ELSE LET i == CHOOSE j \in positions : TRUE
         IN  films[i].user_rating[1] + SumOfRatings(positions \ {i})

\* C23: average_rating is null exactly when no film has a present user_rating;
\* otherwise it is the mean of the present ratings, also when that mean is 0;
\* and the counts of rating_distribution sum to the number of films with a
\* present user_rating.
RatingStatistics ==
    (Reported /\ films # <<>> /\ ~ stats_out[1].result.raises) =>
        LET report == stats_out[1].result.report[1]
            distribution == report.rating_distribution
        IN  /\ report.average_rating = None <=> RatedFilms = {}
            /\ RatedFilms # {} =>
                   report.average_rating
                     = Some(round_half_even(50 * SumOfRatings(RatedFilms),
                                            Cardinality(RatedFilms)))
            /\ sum_of([k \in 1 .. Len(distribution) |-> distribution[k][2]])
                 = Cardinality(RatedFilms)

\* the genres (key "genres") or countries (key "production_countries") of all
\* films, in the order of the film list
RECURSIVE Occurrences(_, _)
Occurrences(fs, key) ==
    IF fs = <<>> THEN <<>>
    ELSE (IF Head(fs)[key] = None THEN <<>> ELSE Head(fs)[key][1])
         \o Occurrences(Tail(fs), key)

\* the non-empty directors of all films, in the order of the film list
RECURSIVE Directors(_)
Directors(fs) ==
    IF fs = <<>> THEN <<>>
    ELSE (IF Head(fs).director = None \/ Head(fs).director = Some("")
          THEN <<>> ELSE Head(fs).director)
         \o Directors(Tail(fs))

CountIn(seq, key) == Cardinality({ k \in 1 .. Len(seq) : seq[k] = key })

FirstIn(seq, key) == CHOOSE k \in 1 .. Len(seq) :
                        seq[k] = key /\ \A j \in 1 .. k - 1 : seq[j] # key

\* a breakdown is the top ten of the keys of seq: true counts, no key left out
\* counted higher than a key kept, and among equal counts the key met first
\* comes first and is kept first
IsTopTen(breakdown, seq) ==
    /\ Len(breakdown) = Min(10, Cardinality({ seq[k] : k \in 1 .. Len(seq) }))
    /\ Cardinality(Keys(breakdown)) = Len(breakdown)
    /\ \A k \in 1 .. Len(breakdown) :
           /\ breakdown[k][2] > 0
           /\ breakdown[k][2] = CountIn(seq, breakdown[k][1])
    /\ \A k \in 1 .. Len(breakdown) - 1 :
           \/ breakdown[k][2] > breakdown[k + 1][2]
           \/ /\ breakdown[k][2] = breakdown[k + 1][2]
              /\ FirstIn(seq, breakdown[k][1]) < FirstIn(seq, breakdown[k + 1][1])
    /\ \A j \in 1 .. Len(seq) : seq[j] \notin Keys(breakdown) =>
           \A k \in 1 .. Len(breakdown) :
               \/ CountIn(seq, seq[j]) < breakdown[k][2]
               \/ /\ CountIn(seq, seq[j]) = breakdown[k][2]
                  /\ FirstIn(seq, breakdown[k][1]) < FirstIn(seq, seq[j])

\* C24: top_genres, country_breakdown and director_counts each have at most 10
\* keys with their true counts over all films, no key left out has a strictly
\* larger count than a key kept, and among equal counts the key encountered
\* first in the film list comes first, in all three alike.
TopTenBreakdowns ==
    (Reported /\ films # <<>> /\ ~ stats_out[1].result.raises) =>
        /\ IsTopTen(stats_out[1].result.report[1].top_genres,
                    Occurrences(films, "genres"))
        /\ IsTopTen(stats_out[1].result.report[1].country_breakdown,
                    Occurrences(films, "production_countries"))
        /\ IsTopTen(stats_out[1].result.report[1].director_counts, Directors(films))

\* eleven directors and eleven countries of one film each, of which the last
\* is left out, and eleven genres of which the one of a single film is left out
TopTenBreakdownsWitness ==
    /\ Reported
    /\ Len(films) = 11
    /\ Cardinality({ Directors(films)[k] : k \in 1 .. Len(Directors(films)) }) = 11
    /\ Len(stats_out[1].result.report[1].director_counts) = 10
    /\ Len(stats_out[1].result.report[1].country_breakdown) = 10
    /\ Len(stats_out[1].result.report[1].top_genres) = 10
    /\ films[11].director[1] \notin Keys(stats_out[1].result.report[1].director_counts)
    /\ GenreNames[11] \notin Keys(stats_out[1].result.report[1].top_genres)
    /\ stats_out[1].result.report[1].top_genres[10][2] > 1

FiveMoods ==
    {"Dark & Intense", "Fun & Light", "Emotional & Deep", "Adventurous", "Thought-Provoking"}

GenresOfMood(m) ==
    CASE m = "Dark & Intense" -> {"Horror", "Thriller", "Crime", "War", "Mystery"}
      [] m = "Fun & Light" -> {"Comedy", "Animation", "Family", "Music"}
      [] m = "Emotional & Deep" -> {"Drama", "Romance", "History"}
      [] m = "Adventurous" -> {"Action", "Adventure", "Science Fiction", "Fantasy", "Western"}
      [] m = "Thought-Provoking" -> {"Documentary", "Mystery", "Science Fiction"}

\* what an occurrence of a genre adds to the global total
WeightOfGenre(g) ==
    IF g \in {"Mystery", "Science Fiction"} THEN 2
    ELSE IF \E m \in FiveMoods : g \in GenresOfMood(m) THEN 1 ELSE 0

MoodCounter(m) ==
    Cardinality({ k \in 1 .. Len(Occurrences(films, "genres")) :
                    Occurrences(films, "genres")[k] \in GenresOfMood(m) })

GlobalTotal ==
    sum_of([k \in 1 .. Len(Occurrences(films, "genres")) |->
              WeightOfGenre(Occurrences(films, "genres")[k])])

RECURSIVE SumOfCounters(_)
SumOfCounters(moods) ==
    IF moods = {} THEN 0
    ELSE LET m == CHOOSE x \in moods : TRUE
         IN  MoodCounter(m) + SumOfCounters(moods \ {m})

\* the mood analysis of a report that was returned: five keys, the total is the
\* sum of the counters, percentages in tenths of a percent as the report
\* rounds them, zeros when nothing is mapped
MoodAnalysisOf(report) ==
    /\ DOMAIN report.mood_analysis = FiveMoods
    /\ GlobalTotal = SumOfCounters(FiveMoods)
    /\ GlobalTotal > 0 =>
           \A m \in FiveMoods :
               report.mood_analysis[m] = round_half_even(1000 * MoodCounter(m), GlobalTotal)
    /\ GlobalTotal = 0 => \A m \in FiveMoods : report.mood_analysis[m] = 0

\* C25: every non-empty film list has a mood analysis with exactly the five
\* mood keys; the global total is the sum of the five counters ("Mystery" and
\* "Science Fiction" add 2, any other mapped genre 1, an unmapped genre 0);
\* each percentage is mood_count / total * 100; with a total of 0 all five
\* moods report 0.
MoodAnalysis ==
    (Reported /\ films # <<>>) =>
        /\ ~ stats_out[1].result.raises
        /\ stats_out[1].result.report # None
        /\ MoodAnalysisOf(stats_out[1].result.report[1])

\* the same for the lists on which the call returns
MoodAnalysisOfReturned ==
    (Reported /\ films # <<>> /\ ~ stats_out[1].result.raises) =>
        MoodAnalysisOf(stats_out[1].result.report[1])

----------------------------------------------------------------------------
(* get_user_films: the scraped list merged with the database *)

Slugs == {"alien", "brazil", "casablanca", "diva"}

SlugsOf(fs) == { fs[k].slug[1] : k \in { j \in 1 .. Len(fs) : fs[j].slug # None } }

MaxToScrapeDomain == {0, 1, 2, 100}

InitMerge ==
    /\ pc = "merge_collect"
    /\ IdleCore
    /\ IdleIO

\* the page loop found one more film; the database has it complete, has it
\* incomplete, or does not have it
MergeAddFilm ==
    /\ pc = "merge_collect"
    /\ Len(user_films) < MaxUserFilms
    /\ \E slug \in Slugs \ SlugsOf(user_films) :
       \E known \in {"complete", "incomplete", "missing"} :
          /\ user_films' = Append(user_films, [slug |-> Some(slug), data |-> "page"])
          /\ db_films' = IF known = "missing" THEN db_films
                         ELSE [ s \in DOMAIN db_films \cup {slug} |->
                                  IF s = slug THEN known ELSE db_films[s] ]
    /\ UNCHANGED <<pc, core_vars, used_rss_fallback, max_to_scrape, enriched_films, profile,
                   page, consecutive_empty_pages, fetched, raised, other_vars>>

\* the rest of get_user_films, from the database lookup to the return
MergeWithDatabase ==
    /\ pc = "merge_collect"
    /\ user_films # <<>>
    /\ \E used_rss \in BOOLEAN : \E max \in MaxToScrapeDomain :
          /\ used_rss_fallback' = used_rss
          /\ max_to_scrape' = max
          /\ enriched_films' = Some(merge_with_database(user_films, db_films, used_rss, max))
    /\ pc' = "merged"
    /\ UNCHANGED <<core_vars, user_films, db_films, profile, page,
                   consecutive_empty_pages, fetched, raised, other_vars>>

NextMerge == MergeAddFilm \/ MergeWithDatabase

SpecMerge == InitMerge /\ [][NextMerge]_vars

Merged == pc = "merged"

\* C26: in every branch of get_user_films, every slug of the scraped list is
\* exactly once in the list returned: no film is dropped, none is duplicated.
EachFilmExactlyOnce ==
    Merged =>
        /\ Len(enriched_films[1]) = Len(user_films)
        /\ \A k \in 1 .. Len(user_films) :
               Cardinality({ j \in 1 .. Len(enriched_films[1]) :
                               enriched_films[1][j].slug = user_films[k].slug }) = 1

----------------------------------------------------------------------------
(* POST /analyze: analyze_user and the page loop of get_user_films *)

RawUsernames == {"", "  ", " Alice ", "user403"}

PageOutcomes ==
    {"films", "empty", "cloudflare", "not_found", "private", "invalid", "client_error",
     "blocked", "fetch_404", "fetch_failed"}

RssOutcomes == {"films", "empty", "error"}

\* the slug of the film on the k-th page fetched
PageSlugs == <<"alien", "brazil", "casablanca", "diva", "eraserhead", "fargo", "gilda", "harakiri">>

PageFilms(k) == <<[slug |-> Some(PageSlugs[k]), data |-> "page"]>>

RssFilms == <<[slug |-> Some("ikiru"), data |-> "rss"]>>

DbDomain == { <<>>, [s \in {"alien"} |-> "complete"], [s \in {"alien"} |-> "incomplete"] }

InitAnalyze ==
    /\ pc = "request"
    /\ IdleCore
    /\ IdleIO

\* the state of get_user_films as a record, and back
scraper_state ==
    [ pc |-> pc, username |-> profile, page |-> page, empty |-> consecutive_empty_pages,
      films |-> user_films, used_rss |-> used_rss_fallback, raised |-> raised,
      enriched |-> enriched_films ]

scraper_becomes(st) ==
    /\ pc' = st.pc
    /\ page' = st.page
    /\ consecutive_empty_pages' = st.empty
    /\ user_films' = st.films
    /\ used_rss_fallback' = st.used_rss
    /\ raised' = st.raised
    /\ enriched_films' = st.enriched

\* analyze_user up to the call of get_user_films; the database and
\* MAX_FILMS_TO_SCRAPE are what they are when the request arrives
AnalyzeRequest ==
    /\ pc = "request"
    /\ \E raw \in RawUsernames :
          /\ profile' = strip_lower(raw)
          /\ IF strip_lower(raw) = ""
             THEN /\ response' = Some([status |-> 400, detail |-> <<"Username is required">>])
                  /\ pc' = "responded"
                  /\ UNCHANGED <<db_films, max_to_scrape>>
             ELSE /\ pc' = "paging"
                  /\ db_films' \in DbDomain
                  /\ max_to_scrape' \in {1, 100}
                  /\ UNCHANGED response
    /\ UNCHANGED <<core_vars, user_films, used_rss_fallback, enriched_films, page,
                   consecutive_empty_pages, fetched, raised, stats_called_with, retry_vars,
                   db_vars>>

\* one pass of the page loop
FetchPage ==
    /\ pc = "paging"
    /\ Len(fetched) < MaxPages
    /\ \E outcome \in PageOutcomes : \E rss \in RssOutcomes :
          /\ scraper_becomes(page_pass(scraper_state, outcome, PageFilms(Len(fetched) + 1),
                                       rss, RssFilms))
          /\ fetched' = Append(fetched, outcome)
    /\ UNCHANGED <<core_vars, db_films, max_to_scrape, profile, other_vars>>

\* get_user_films after the loop
AfterLoop ==
    /\ pc = "loop_done"
    /\ scraper_becomes(after_loop(scraper_state, db_films, max_to_scrape))
    /\ UNCHANGED <<core_vars, db_films, max_to_scrape, profile, fetched, other_vars>>

\* analyze_user from the return of get_user_films to the response
AnalyzeRespond ==
    /\ pc \in {"collected", "raised"}
    /\ \E stats_raises \in BOOLEAN :
          LET done == analyze_after_scrape(profile, pc,
                                           IF pc = "collected" THEN enriched_films[1] ELSE <<>>,
                                           IF pc = "raised" THEN raised[1] ELSE None,
                                           stats_raises)
          IN  /\ response' = Some(done.response)
              /\ stats_called_with' = done.calls
    /\ pc' = "responded"
    /\ UNCHANGED <<core_vars, scraper_vars, retry_vars, db_vars>>

NextAnalyze == AnalyzeRequest \/ FetchPage \/ AfterLoop \/ AnalyzeRespond

SpecAnalyze == InitAnalyze /\ [][NextAnalyze]_vars

\* the number of "empty" at the end of a sequence of page outcomes
RECURSIVE TrailingEmpty(_)
TrailingEmpty(outcomes) ==
    IF outcomes = <<>> \/ outcomes[Len(outcomes)] # "empty" THEN 0
    ELSE 1 + TrailingEmpty(SubSeq(outcomes, 1, Len(outcomes) - 1))

InPageLoop == pc = "paging"

AfterPageLoop == pc \in {"loop_done", "collected", "raised", "responded"} /\ profile # ""

\* C27: the page loop stops after 2 consecutive pages without films; one empty
\* page does not stop it, and a page with films after it sets the counter of
\* consecutive empty pages to 0 and keeps the loop going; every film of every
\* page with films that was fetched is in the collected list; the pages
\* fetched never end with more than 2 empty pages; and with no film
\* collected the function raises and returns no list.
Pagination ==
    /\ TrailingEmpty(fetched) <= 2
    /\ TrailingEmpty(fetched) = 2 => ~ InPageLoop
    /\ (fetched # <<>> /\ fetched[Len(fetched)] = "empty") =>
           /\ consecutive_empty_pages = TrailingEmpty(fetched)
           /\ TrailingEmpty(fetched) = 1 => (InPageLoop /\ page = Len(fetched) + 1)
    /\ (fetched # <<>> /\ fetched[Len(fetched)] = "films") =>
           /\ consecutive_empty_pages = 0
           /\ InPageLoop
           /\ page = Len(fetched) + 1
    /\ \A k \in 1 .. Len(fetched) :
           fetched[k] = "films" =>
               \E j \in 1 .. Len(user_films) : user_films[j] = PageFilms(k)[1]
    /\ (AfterPageLoop /\ pc # "loop_done" /\ user_films = <<>>) =>
           (raised # None /\ enriched_films = None)
    /\ enriched_films # None => enriched_films[1] # <<>>

\* an empty page, a page with films, then two empty pages: the loop went on
\* after the first and stopped after the last, and the list was returned
PaginationWitness ==
    /\ fetched = <<"empty", "films", "empty", "empty">>
    /\ pc = "collected"
    /\ consecutive_empty_pages = 2
    /\ Len(user_films) = 1

Responded == pc = "responded"

NoFilmsFound == raised # None /\ raised[1].kind = "no_films"

\* C29: when no films are found for the requested username, POST /analyze
\* responds with status 404 and the detail "No films found for user ..."
\* (not with 500); calculate_obscurity_stats is never called with an empty
\* list; a blank username is rejected with 400 before any scraping starts.
NoFilmsIsNotFound ==
    /\ (Responded /\ NoFilmsFound) =>
           /\ response[1].status = 404
           /\ response[1].detail = error_text(raised[1])
    /\ \A k \in 1 .. Len(stats_called_with) : stats_called_with[k] # <<>>
    /\ (Responded /\ profile = "") =>
           (response[1].status = 400 /\ fetched = <<>> /\ stats_called_with = <<>>)

\* the parts of it that hold: no call with an empty list, 400 before any fetch
NoEmptyCallAndBlankRejected ==
    /\ \A k \in 1 .. Len(stats_called_with) : stats_called_with[k] # <<>>
    /\ (Responded /\ profile = "") =>
           (response[1].status = 400 /\ fetched = <<>> /\ stats_called_with = <<>>)
    /\ (Responded /\ NoFilmsFound) => response[1].status = 500

----------------------------------------------------------------------------
(* get_film_stats: one call *)

AttemptOutcomes == {"stats", "no_stats", "other_error"} \cup ConnectionErrors

StatsSlugs == {None, Some(""), Some("alien")}

InitRetry ==
    /\ pc = "stats_call"
    /\ IdleCore
    /\ IdleIO

\* the call, up to the first attempt
GetFilmStats ==
    /\ pc = "stats_call"
    /\ \E slug \in StatsSlugs : \E n \in 0 .. MaxRetries :
          /\ stats_slug' = slug
          /\ retries' = n
          /\ pc' = get_film_stats_start(slug, n).pc
          /\ stats_returned' = get_film_stats_start(slug, n).returned
    /\ UNCHANGED <<core_vars, scraper_vars, http_vars, db_vars, attempt, attempts>>

\* one attempt
Attempt ==
    /\ pc = "attempting"
    /\ \E outcome \in AttemptOutcomes :
          /\ attempts' = Append(attempts, outcome)
          /\ pc' = attempt_pass(attempt, retries, outcome).pc
          /\ attempt' = attempt_pass(attempt, retries, outcome).attempt
          /\ stats_returned' = attempt_pass(attempt, retries, outcome).returned
    /\ UNCHANGED <<core_vars, scraper_vars, http_vars, db_vars, stats_slug, retries>>

NextRetry == GetFilmStats \/ Attempt

SpecRetry == InitRetry /\ [][NextRetry]_vars

StatsDone == pc = "stats_done"

LastAttempt == attempts[Len(attempts)]

\* C28: get_film_stats ends with a returned dict, never with an exception;
\* it makes at most retries attempts; every attempt but the last one made
\* failed with a connection-class error; an attempt that fails with any
\* other exception is the last and the result is {}; when all retries
\* attempts fail the result is {}; a film without a slug gives {} with no
\* attempt made.
RetryProtocol ==
    /\ StatsDone <=> stats_returned # None
    /\ Len(attempts) <= retries
    /\ \A k \in 1 .. Len(attempts) - 1 : attempts[k] \in ConnectionErrors
    /\ (attempts # <<>> /\ LastAttempt \in ConnectionErrors /\ Len(attempts) < retries) =>
           (pc = "attempting" /\ attempt = Len(attempts))
    /\ (attempts # <<>> /\ LastAttempt = "other_error") =>
           (StatsDone /\ stats_returned = Some(<<>>))
    /\ (Len(attempts) = retries /\ retries > 0 /\ LastAttempt \in ConnectionErrors) =>
           (StatsDone /\ stats_returned = Some(<<>>))
    /\ (attempts # <<>> /\ LastAttempt \in {"stats", "no_stats"}) =>
           (StatsDone /\ stats_returned = Some(stats_of(LastAttempt)))
    /\ (StatsDone /\ (stats_slug = None \/ stats_slug[1] = "")) =>
           (attempts = <<>> /\ stats_returned = Some(<<>>))

\* the default number of attempts, all failed with connection-class errors
RetryProtocolWitness ==
    /\ StatsDone
    /\ retries = default_retries
    /\ attempts = <<"TimeoutError", "ClientError", "OSError">>
    /\ stats_returned = Some(<<>>)

----------------------------------------------------------------------------
(* save_film: any sequence of calls *)

\* the states of a key of a film: absent, None, or one of the values
KeyStates(key, values) == { <<>>, key :> None } \cup { key :> Some(v) : v \in values }

\* absent or one of the values
KeyValues(key, values) == { <<>> } \cup { key :> Some(v) : v \in values }

AlienSlugs == { "letterboxd_slug" :> Some("alien"),
                ("slug" :> Some("")) @@ ("letterboxd_slug" :> Some("alien")) }

OtherSlugs == { "slug" :> Some("brazil"), ("slug" :> Some("brazil")) @@ ("letterboxd_slug" :> Some("alien")) }

NoSlugs == { <<>>, "slug" :> None, "slug" :> Some(""), ("slug" :> None) @@ ("letterboxd_slug" :> Some("")) }

\* the films saved: the combinations of the keys' states for the slug "alien",
\* and a few films with the slug under the other key, another slug or none
SavedFilms ==
    { ("slug" :> Some("alien")) @@ t @@ y @@ w @@ p @@ d :
        t \in KeyValues("title", {"", "Alien"}),
        y \in KeyStates("year", {1979}),
        w \in KeyStates("letterboxd_watches", {0, 1200}),
        p \in KeyStates("popularity", {5}),
        d \in KeyValues("director", {"", "Ridley Scott"}) }
    \cup { s @@ t @@ w : s \in AlienSlugs,
                         t \in KeyStates("title", {"Alien"}),
                         w \in KeyStates("letterboxd_watches", {1200}) }
    \cup { s @@ t @@ w : s \in OtherSlugs \cup NoSlugs,
                         t \in KeyStates("title", {"Brazil"}),
                         w \in KeyStates("letterboxd_watches", {900}) }

GuardedColumns == {"title", "year", "letterboxd_watches", "director"}

\* whether a film lacks a column: no key, None, or an empty text
Lacks(f, key) ==
    \/ key \notin DOMAIN f
    \/ f[key] = None
    \/ key \in {"title", "director"} /\ f[key] = Some("")

\* whether a row has a value in a column: not NULL and not an empty text
Stored(row, key) ==
    /\ row[key] # None
    /\ key \in {"title", "director"} => row[key] # Some("")

\* the guarded columns that a call with film f for an existing row must keep
KeptBy(rows, f) ==
    { key \in GuardedColumns :
        /\ truthy(slug_of(f))
        /\ Lacks(f, key)
        /\ \E k \in rows_with_slug(rows, slug_of(f)) : Stored(rows[k], key) }

InitDb ==
    /\ pc = "saving"
    /\ IdleCore
    /\ IdleIO

\* one call of save_film
SaveFilm ==
    /\ pc = "saving"
    /\ \E f \in SavedFilms :
          /\ table' = save_film(table, f).table
          /\ save_outcome' = IF save_film(table, f).raised THEN "raised" ELSE "returned"
          /\ save_slug' = IF truthy(slug_of(f)) THEN slug_of(f) ELSE None
          /\ save_kept' = KeptBy(table, f)
    /\ UNCHANGED <<pc, core_vars, scraper_vars, http_vars, retry_vars>>

NextDb == SaveFilm

SpecDb == InitDb /\ [][NextDb]_vars

OneRowPerSlug ==
    \A j, k \in 1 .. Len(table) : table[j].letterboxd_slug = table[k].letterboxd_slug => j = k

\* what one call does to the table
SaveStep ==
    /\ save_slug' = None => table' = table
    /\ Len(table') >= Len(table)
    /\ \A k \in 1 .. Len(table) :
           /\ table'[k].id = table[k].id
           /\ table'[k].letterboxd_slug = table[k].letterboxd_slug
           /\ table[k].letterboxd_slug # save_slug' => table'[k] = table[k]
           /\ \A key \in GuardedColumns : Stored(table[k], key) => Stored(table'[k], key)
           /\ \A key \in save_kept' :
                  table[k].letterboxd_slug = save_slug' => table'[k][key] = table[k][key]
    /\ (save_slug' # None /\ rows_with_slug(table, save_slug') # {}) =>
           (Len(table') = Len(table) /\ save_outcome' = "returned")
    /\ Len(table') > Len(table) =>
           /\ Len(table') = Len(table) + 1
           /\ table'[Len(table')].letterboxd_slug = save_slug'
           /\ rows_with_slug(table, save_slug') = {}

\* C30: after any sequence of save_film calls the table has at most one row
\* per letterboxd_slug; a call for a film without a slug changes nothing; a
\* call for an existing slug changes that row only, in place (same id, same
\* number of rows); and a stored title, year, letterboxd_watches or director
\* that is not null is kept when the incoming film lacks it, and never
\* becomes null or empty.
CacheUpsert == []OneRowPerSlug /\ [][SaveStep]_vars

\* the last call was for the stored film "alien" and lacked all four guarded
\* columns, which the row still has
CacheUpsertWitness ==
    /\ save_slug = Some("alien")
    /\ save_kept = GuardedColumns
    /\ \E k \in 1 .. Len(table) :
           /\ table[k].letterboxd_slug = Some("alien")
           /\ \A key \in GuardedColumns : Stored(table[k], key)
    /\ Len(table) = 2
====
